---------------------------- MODULE Spec2Model ----------------------------
(***************************************************************************)
(* A model of the FIRE simulator's core: the block-bootstrap resampler     *)
(* (simulator/bootstrap.py), the cash-flow scheduler                       *)
(* (simulator/cashflow.py) and the path simulators                         *)
(* (simulator/monte_carlo.py, simulator/guardrail.py, simulator/sweep.py). *)
(*                                                                         *)
(* Real numbers are exact rationals <<n, d>> in lowest terms with d > 0,   *)
(* so that equalities between amounts are decided exactly.                 *)
(***************************************************************************)
EXTENDS Integers, Sequences, FiniteSets, TLC

\* Python's None where a sequence is optional; as a seed, no seed
None == << >>
NoSeed == "None"

(***************************************************************************)
(* Exact rational arithmetic                                               *)
(***************************************************************************)
Abs(x) == IF x < 0 THEN -x ELSE x

RECURSIVE GCD(_, _)
GCD(a, b) == IF b = 0 THEN a ELSE GCD(b, a % b)

\* the rational n/d in lowest terms, d # 0
Rat(n, d) ==
    IF n = 0 /\ d # 0 THEN << 0, 1 >>
    ELSE LET g == GCD(Abs(n), Abs(d))
             s == IF d < 0 THEN -1 ELSE 1
         IN  << (s * n) \div g, (s * d) \div g >>

Z(k) == << k, 1 >>
RZero == Z(0)
ROne == Z(1)

\* sums, products and comparisons take common factors out first, so that the
\* intermediate integers stay small
RAdd(a, b) ==
    LET g == GCD(a[2], b[2])
    IN  Rat(a[1] * (b[2] \div g) + b[1] * (a[2] \div g), (a[2] \div g) * b[2])
RSub(a, b) == RAdd(a, << -b[1], b[2] >>)
RMul(a, b) ==
    IF a[1] = 0 \/ b[1] = 0 THEN << 0, 1 >>
    ELSE LET g1 == GCD(Abs(a[1]), b[2])
             g2 == GCD(Abs(b[1]), a[2])
         IN  Rat((a[1] \div g1) * (b[1] \div g2), (a[2] \div g2) * (b[2] \div g1))
RDiv(a, b) == RMul(a, IF b[1] < 0 THEN << -b[2], -b[1] >> ELSE << b[2], b[1] >>)
RLt(a, b) ==
    LET g == GCD(a[2], b[2])
    IN  a[1] * (b[2] \div g) < b[1] * (a[2] \div g)
RLe(a, b) ==
    LET g == GCD(a[2], b[2])
    IN  a[1] * (b[2] \div g) <= b[1] * (a[2] \div g)
RPos(a) == a[1] > 0
RMax(a, b) == IF RLt(a, b) THEN b ELSE a
RMin(a, b) == IF RLt(b, a) THEN b ELSE a

Min2(a, b) == IF a <= b THEN a ELSE b
Max2(a, b) == IF a >= b THEN a ELSE b

\* the first k elements of a sequence (Python's s[:k])
Take(s, k) == SubSeq(s, 1, Min2(k, Len(s)))

\* a sequence of k zeros (np.zeros(k))
Zeros(k) == [t \in 1..k |-> RZero]

\* element-wise sum of two equally long vectors (numpy a + b)
VecAdd(a, b) == [t \in 1..Len(a) |-> RAdd(a[t], b[t])]

(***************************************************************************)
(* Bounds of the model                                                     *)
(***************************************************************************)
\* largest historical dataset (rows) given to block_bootstrap on its own
MaxRows == 2
\* largest block size given to block_bootstrap on its own
MaxBlock == 3
\* longest horizon asked of block_bootstrap on its own
BbMaxYears == 3
\* longest horizon asked of build_cf_schedule on its own
CfMaxYears == 3
\* longest cash-flow list given to build_cf_schedule on its own
CfMaxItems == 2

(***************************************************************************)
(* State                                                                   *)
(***************************************************************************)
VARIABLES
    fn,               \* the function under call
    pc,               \* position inside it
    \* ---- arguments of block_bootstrap / run_simulation
    returns_df,       \* historical dataset: sequence of rows <<us, intl, bond, inflation>>
    retirement_years,
    min_block,
    max_block,
    rng,              \* np.random.Generator: [seed, pos], pos = place in the seed's stream
    stream,           \* per integer seed, the numbers that seed's generator has produced
    \* ---- locals of block_bootstrap
    sampled_rows,     \* list of blocks, each a sequence of rows
    total_sampled,
    sampled,          \* the returned DataFrame (empty until block_bootstrap returns)
    \* ---- arguments and result of build_cf_schedule
    cash_flows,       \* list of CashFlowItem (None and [] are both the empty list)
    inflation_series, \* sequence of yearly inflation rates, or None
    cf_result         \* [raised, schedule] once build_cf_schedule has ended

bbVars == << returns_df, min_block, max_block, rng, stream,
             sampled_rows, total_sampled, sampled >>

cfVars == << cash_flows, inflation_series, cf_result >>

(***************************************************************************)
(* State of the path simulators                                            *)
(***************************************************************************)
VARIABLES
    \* ---- arguments of run_simulation and _simulate_success_rate
    allocation,
    expense_ratios,
    annual_withdrawal,
    withdrawal_strategy,
    dynamic_ceiling,
    dynamic_floor,
    num_simulations,
    seed,
    \* ---- arguments of run_guardrail_simulation and run_fixed_baseline
    scenarios,        \* (num_sims, years) matrix of real returns: scenarios[i + 1][year + 1]
    inflation_matrix, \* (num_sims, years) matrix of inflation rates, or None
    table,
    rate_grid,
    target_success,
    upper_guardrail,
    lower_guardrail,
    adjustment_pct,
    adjustment_mode,
    min_remaining_years,
    baseline_rate,
    \* ---- locals and results of the path simulators
    initial_portfolio,
    i,                \* path index, from 0
    year,             \* year index, from 0
    value,
    wd,               \* prev_withdrawal / prev_wd / wd / annual_wd
    real_returns,
    cf_schedule,
    cf_matrix,
    trajectories,     \* trajectories[i + 1][k + 1] is the code's trajectories[i, k]
    withdrawals,      \* withdrawals[i + 1][k + 1] is the code's withdrawals[i, k]
    survived,
    \* ---- locals of _find_portfolio_for_success
    lo,
    hi,
    iter,             \* iterations of the search loop done so far
    \* ---- the same call made a second time
    call,             \* 1 during the first call, 2 during its repetition
    first,            \* what the first call returned
    \* ---- the functions called on their own
    args,             \* arguments that no variable above holds, by parameter name
    result            \* the value returned, or the exception raised

rsArgs == << allocation, expense_ratios, annual_withdrawal, withdrawal_strategy,
             dynamic_ceiling, dynamic_floor, num_simulations, seed >>

grArgs == << scenarios, inflation_matrix, table, rate_grid, target_success,
             upper_guardrail, lower_guardrail, adjustment_pct, adjustment_mode,
             min_remaining_years, baseline_rate >>

simLocals == << initial_portfolio, i, year, value, wd, real_returns, cf_schedule,
                cf_matrix, trajectories, withdrawals, survived >>

searchVars == << lo, hi, iter >>

detVars == << call, first >>

fnVars == << args, result >>

simVars == << rsArgs, grArgs, simLocals, searchVars, detVars, fnVars >>

vars == << fn, pc, retirement_years, bbVars, cfVars, simVars >>

(***************************************************************************)
(* The random generator.  A generator made from an integer seed is a       *)
(* deterministic stream: asked the same requests in the same order it      *)
(* gives the same numbers.  A generator made without a seed                *)
(* (np.random.default_rng(None)) takes fresh entropy; nothing repeats.     *)
(***************************************************************************)
Seeds == {"seed42", "seed99"}

\* np.random.default_rng(seed); seed is None or an integer seed
default_rng(s) == [seed |-> s, pos |-> 0]

\* rng.integers(low, high) on generator g with produced numbers st:
\* the set of <<value, generator after, stream after>>
Integers_(g, st, low, high) ==
    LET seeded == g.seed \in Seeds
        known  == seeded /\ g.pos < Len(st[g.seed])
        e      == st[g.seed][g.pos + 1]
        vals   == IF known /\ e.lo = low /\ e.hi = high THEN {e.val} ELSE low .. (high - 1)
    IN  { << v,
             [g EXCEPT !.pos = IF seeded THEN @ + 1 ELSE @],
             IF seeded /\ ~known
                THEN [st EXCEPT ![g.seed] = Append(@, [lo |-> low, hi |-> high, val |-> v])]
                ELSE st >> : v \in vals }

(***************************************************************************)
(* block_bootstrap (simulator/bootstrap.py): helpers                       *)
(***************************************************************************)
\* a slip: the indices clipped at the last row instead of wrapped to row 0
RingIndices_Clipped(start, block_size, n) == [k \in 1..block_size |-> IF start + k - 1 < n THEN start + k - 1 ELSE n - 1]

\* np.arange(start, start + block_size) % n, as 0-based row indices
RingIndices(start, block_size, n) == [k \in 1..block_size |-> (start + k - 1) % n]

\* data[indices]
TakeRows(data, indices) == [k \in 1..Len(indices) |-> data[indices[k] + 1]]

RECURSIVE Concatenate(_)
\* np.concatenate(blocks, axis=0)
Concatenate(blocks) ==
    IF blocks = << >> THEN << >> ELSE Head(blocks) \o Concatenate(Tail(blocks))

\* a slip: the concatenated blocks returned without the cut to retirement_years
Truncated_NoCut(blocks, years) == Concatenate(blocks)

\* np.concatenate(sampled_rows, axis=0)[:retirement_years]
Truncated(blocks, years) == Take(Concatenate(blocks), years)

(***************************************************************************)
(* build_cf_schedule (simulator/cashflow.py)                               *)
(***************************************************************************)
\* a slip: the factor of year t taken as the product up to year t - 1, so that the
\* first year is not deflated
RECURSIVE CumProd_Exclusive(_)
CumProd_Exclusive(series) ==
    IF series = << >> THEN << >>
    ELSE LET before == CumProd_Exclusive(SubSeq(series, 1, Len(series) - 1))
         IN  Append(before,
                    IF before = << >> THEN ROne
                    ELSE RMul(before[Len(before)], RAdd(ROne, series[Len(series) - 1])))

\* any(not cf.inflation_adjusted for cf in cash_flows)
HasNominal(cfs) == \E k \in 1..Len(cfs) : ~cfs[k].inflation_adjusted

\* np.cumprod(1.0 + inflation_series)
RECURSIVE CumProd(_)
CumProd(series) ==
    IF series = << >> THEN << >>
    ELSE LET before == CumProd(SubSeq(series, 1, Len(series) - 1))
             last   == RAdd(ROne, series[Len(series)])
         IN  Append(before, IF before = << >> THEN last
                            ELSE RMul(before[Len(before)], last))

\* a slip: start_year taken as a 0-based index
AddCashFlow_OffByOne(schedule, cf, years, cumulative_inflation) ==
    LET start_idx == cf.start_year
        end_idx   == Min2(start_idx + cf.duration, years)
    IN  IF start_idx < 0 \/ start_idx >= years
        THEN schedule
        ELSE [t \in 1..years |->
                IF start_idx <= t - 1 /\ t - 1 < end_idx
                THEN IF cf.inflation_adjusted
                     THEN RAdd(schedule[t], cf.amount)
                     ELSE RAdd(schedule[t], RDiv(cf.amount, cumulative_inflation[t]))
                ELSE schedule[t]]

\* the body of the loop over the items (lines 82-98): the schedule after item cf
AddCashFlow(schedule, cf, years, cumulative_inflation) ==
    LET start_idx == cf.start_year - 1
        end_idx   == Min2(start_idx + cf.duration, years)
    IN  IF start_idx < 0 \/ start_idx >= years
        THEN schedule
        ELSE [t \in 1..years |->
                IF start_idx <= t - 1 /\ t - 1 < end_idx
                THEN IF cf.inflation_adjusted
                     THEN RAdd(schedule[t], cf.amount)
                     ELSE RAdd(schedule[t], RDiv(cf.amount, cumulative_inflation[t]))
                ELSE schedule[t]]

RECURSIVE AddCashFlows(_, _, _, _)
\* the loop over the items, in list order
AddCashFlows(schedule, cfs, years, cumulative_inflation) ==
    IF cfs = << >> THEN schedule
    ELSE AddCashFlows(AddCashFlow(schedule, Head(cfs), years, cumulative_inflation),
                      Tail(cfs), years, cumulative_inflation)

\* the items of a list whose start year lies inside the horizon
InRange(cfs, years) ==
    SelectSeq(cfs, LAMBDA cf : ~(cf.start_year - 1 < 0 \/ cf.start_year - 1 >= years))

\* a slip: the missing series noticed only when a nominal item is really added
build_cf_schedule_LateCheck(cfs, years, series) ==
    IF cfs = << >>
    THEN [raised |-> FALSE, schedule |-> Zeros(years)]
    ELSE IF HasNominal(InRange(cfs, years)) /\ series = None
    THEN [raised |-> TRUE, schedule |-> << >>]
    ELSE [raised |-> FALSE,
          schedule |-> AddCashFlows(Zeros(years), cfs, years,
                                    IF HasNominal(cfs) /\ series # None
                                    THEN CumProd(series) ELSE << >>)]

\* build_cf_schedule(cash_flows, retirement_years, inflation_series):
\* [raised |-> TRUE] for the ValueError, else the schedule
build_cf_schedule(cfs, years, series) ==
    IF cfs = << >>
    THEN [raised |-> FALSE, schedule |-> Zeros(years)]
    ELSE IF HasNominal(cfs) /\ series = None
    THEN [raised |-> TRUE, schedule |-> << >>]
    ELSE [raised |-> FALSE,
          schedule |-> AddCashFlows(Zeros(years), cfs, years,
                                    IF HasNominal(cfs) THEN CumProd(series) ELSE << >>)]

(***************************************************************************)
(* compute_real_portfolio_returns (simulator/portfolio.py)                 *)
(***************************************************************************)
\* lines 41-49 without the expenses
RealReturn_NoExpense(row, alloc, expenses) ==
    LET nominal_return ==
            RAdd(RAdd(RMul(alloc.us_stock, row[1]), RMul(alloc.intl_stock, row[2])),
                 RMul(alloc.us_bond, row[3]))
        inflation == row[4]
    IN  RSub(RDiv(RAdd(ROne, nominal_return), RAdd(ROne, inflation)), ROne)

\* the real return of one sampled row <<us, intl, bond, inflation>> (lines 41-49)
RealReturn(row, alloc, expenses) ==
    LET nominal_return ==
            RAdd(RAdd(RMul(alloc.us_stock, RSub(row[1], expenses.us_stock)),
                      RMul(alloc.intl_stock, RSub(row[2], expenses.intl_stock))),
                 RMul(alloc.us_bond, RSub(row[3], expenses.us_bond)))
        inflation == row[4]
    IN  RSub(RDiv(RAdd(ROne, nominal_return), RAdd(ROne, inflation)), ROne)

\* compute_real_portfolio_returns(sampled_returns, allocation, expense_ratios)
compute_real_portfolio_returns(rows, alloc, expenses) ==
    [t \in 1..Len(rows) |-> RealReturn(rows[t], alloc, expenses)]

\* the parameters of compute_real_portfolio_returns (lines 7-11)
PortfolioParams == { "sampled_returns", "allocation", "expense_ratios" }

\* a call compute_real_portfolio_returns(rows, alloc, expenses, **keywords): a
\* keyword that is no parameter of the function raises TypeError before the body
\* runs
call_compute_real_portfolio_returns(rows, alloc, expenses, keywords) ==
    IF DOMAIN keywords \subseteq PortfolioParams
    THEN [raised |-> "None",
          value |-> compute_real_portfolio_returns(rows, alloc, expenses)]
    ELSE [raised |-> "TypeError", value |-> << >>]

\* sampled["US Inflation"].values
InflationColumn(rows) == [t \in 1..Len(rows) |-> rows[t][4]]

(***************************************************************************)
(* The guardrail table and its lookups (simulator/guardrail.py)            *)
(***************************************************************************)
RECURSIVE ARange(_, _, _)
\* np.arange(start, stop, step)
ARange(start, stop, step) ==
    IF RLt(start, stop) THEN << start >> \o ARange(RAdd(start, step), stop, step)
    ELSE << >>

\* the number of TRUE entries of a sequence of booleans
RECURSIVE CountTrue(_)
CountTrue(bs) ==
    IF bs = << >> THEN 0 ELSE (IF Head(bs) THEN 1 ELSE 0) + CountTrue(Tail(bs))

\* np.mean of a boolean vector
MeanTrue(bs) == Rat(CountTrue(bs), Len(bs))

\* np.mean of a vector of numbers
RECURSIVE RSumSeq(_)
RSumSeq(xs) == IF xs = << >> THEN RZero ELSE RAdd(Head(xs), RSumSeq(Tail(xs)))
Mean(xs) == RDiv(RSumSeq(xs), Z(Len(xs)))

RECURSIVE NormalizedValue_AddRate(_, _, _)
\* the loop of lines 56-60 with `+ rate` in place of `- rate`
NormalizedValue_AddRate(returns, rate, y) ==
    IF y = 0 THEN ROne
    ELSE LET v == RAdd(RMul(NormalizedValue_AddRate(returns, rate, y - 1),
                            RAdd(ROne, returns[y])), rate)
         IN  IF RPos(v) THEN v ELSE RZero

RECURSIVE NormalizedValue_NoPin(_, _, _)
\* a slip: the value carried on below 0 instead of pinned to 0
NormalizedValue_NoPin(returns, rate, y) ==
    IF y = 0 THEN ROne
    ELSE RSub(RMul(NormalizedValue_NoPin(returns, rate, y - 1), RAdd(ROne, returns[y])), rate)

RECURSIVE NormalizedValue(_, _, _)
\* values[p] after y years of the loop of lines 56-60 at a rate, for the returns
\* of path p: v * (1 + r) - rate, pinned to 0 when it is not positive
NormalizedValue(returns, rate, y) ==
    IF y = 0 THEN ROne
    ELSE LET v == RSub(RMul(NormalizedValue(returns, rate, y - 1),
                            RAdd(ROne, returns[y])), rate)
         IN  IF RPos(v) THEN v ELSE RZero

\* build_success_rate_table(scenarios, rate_min, rate_max, rate_step):
\* table[i][y + 1] is the code's table[i - 1, y], the mean of alive after y years
build_success_rate_table(scens, rate_min, rate_max, rate_step) ==
    LET num_sims  == Len(scens)
        max_years == Len(scens[1])
        grid      == ARange(rate_min, RAdd(rate_max, RDiv(rate_step, Z(2))), rate_step)
    IN  [rate_grid |-> grid,
         table |-> [r \in 1..Len(grid) |->
                      [c \in 1..(max_years + 1) |->
                         IF c = 1 THEN ROne
                         ELSE MeanTrue([p \in 1..num_sims |->
                                  RPos(NormalizedValue(scens[p], grid[r], c - 1))])]]]

\* np.searchsorted(rate_grid, rate): how many grid rates lie below rate
SearchSorted(grid, rate) ==
    Cardinality({ k \in 1..Len(grid) : RLt(grid[k], rate) })

\* lookup_success_rate without the two returns at the ends of the grid
lookup_success_rate_Extrapolate(tbl, grid, rate, remaining_years) ==
    LET max_years == Len(tbl[1]) - 1
        rem       == Max2(Min2(remaining_years, max_years), 0)
        last      == Len(grid)
        idx       == Max2(0, Min2(SearchSorted(grid, rate) - 1, last - 2))
        frac      == RDiv(RSub(rate, grid[idx + 1]), RSub(grid[idx + 2], grid[idx + 1]))
        val_low   == tbl[idx + 1][rem + 1]
        val_high  == tbl[idx + 2][rem + 1]
    IN  RAdd(val_low, RMul(frac, RSub(val_high, val_low)))

\* lookup_success_rate(table, rate_grid, rate, remaining_years)
lookup_success_rate(tbl, grid, rate, remaining_years) ==
    LET max_years == Len(tbl[1]) - 1
        rem       == Max2(Min2(remaining_years, max_years), 0)
        last      == Len(grid)
    IN  IF RLe(rate, grid[1]) THEN tbl[1][rem + 1]
        ELSE IF RLe(grid[last], rate) THEN tbl[last][rem + 1]
        ELSE LET idx      == Max2(0, Min2(SearchSorted(grid, rate) - 1, last - 2))
                 frac     == RDiv(RSub(rate, grid[idx + 1]),
                                  RSub(grid[idx + 2], grid[idx + 1]))
                 val_low  == tbl[idx + 1][rem + 1]
                 val_high == tbl[idx + 2][rem + 1]
             IN  RAdd(val_low, RMul(frac, RSub(val_high, val_low)))

\* find_rate_for_target with line 122 interpolating from rate_grid[i]
find_rate_for_target_WrongEnd(tbl, grid, target, remaining_years) ==
    LET max_years == Len(tbl[1]) - 1
        rem       == Max2(Min2(remaining_years, max_years), 1)
        last      == Len(grid)
        Col(r)    == tbl[r][rem + 1]
        crossing  == { k \in 1..(last - 1) :
                         RLe(target, Col(k)) /\ RLt(Col(k + 1), target) }
    IN  IF RLt(Col(1), target) THEN RZero
        ELSE IF RLe(target, Col(last)) THEN grid[last]
        ELSE IF crossing # {}
        THEN LET k    == CHOOSE x \in crossing : \A z \in crossing : x <= z
                 frac == RDiv(RSub(target, Col(k + 1)), RSub(Col(k), Col(k + 1)))
             IN  RAdd(grid[k], RMul(frac, RSub(grid[k + 1], grid[k])))
        ELSE grid[1]

\* find_rate_for_target without the early return of lines 116-117
find_rate_for_target_NoUpperExit(tbl, grid, target, remaining_years) ==
    LET max_years == Len(tbl[1]) - 1
        rem       == Max2(Min2(remaining_years, max_years), 1)
        last      == Len(grid)
        Col(r)    == tbl[r][rem + 1]
        crossing  == { k \in 1..(last - 1) :
                         RLe(target, Col(k)) /\ RLt(Col(k + 1), target) }
    IN  IF RLt(Col(1), target) THEN RZero
        ELSE IF crossing # {}
        THEN LET k    == CHOOSE x \in crossing : \A z \in crossing : x <= z
                 frac == RDiv(RSub(target, Col(k + 1)), RSub(Col(k), Col(k + 1)))
             IN  RAdd(grid[k + 1], RMul(frac, RSub(grid[k], grid[k + 1])))
        ELSE grid[1]

\* find_rate_for_target(table, rate_grid, target_success, remaining_years);
\* Col(r) is the code's col[r - 1]
find_rate_for_target(tbl, grid, target, remaining_years) ==
    LET max_years == Len(tbl[1]) - 1
        rem       == Max2(Min2(remaining_years, max_years), 1)
        last      == Len(grid)
        Col(r)    == tbl[r][rem + 1]
        crossing  == { k \in 1..(last - 1) :
                         RLe(target, Col(k)) /\ RLt(Col(k + 1), target) }
    IN  IF RLt(Col(1), target) THEN RZero
        ELSE IF RLe(target, Col(last)) THEN grid[last]
        ELSE IF crossing # {}
        THEN LET k    == CHOOSE x \in crossing : \A z \in crossing : x <= z
                 frac == RDiv(RSub(target, Col(k + 1)), RSub(Col(k), Col(k + 1)))
             IN  RAdd(grid[k + 1], RMul(frac, RSub(grid[k], grid[k + 1])))
        ELSE grid[1]

\* a slip: the "amount" mode stepping away from the target withdrawal
apply_guardrail_adjustment_Away(wd_, value_, cur, target, pct, mode, remaining, tbl, grid, cf_avg) ==
    IF mode = "success_rate"
    THEN RAdd(RMul(value_, find_rate_for_target(tbl, grid,
                               RAdd(cur, RMul(pct, RSub(target, cur))), remaining)), cf_avg)
    ELSE LET target_wd == RAdd(RMul(value_, find_rate_for_target(tbl, grid, target, remaining)),
                               cf_avg)
         IN  RSub(wd_, RMul(pct, RSub(target_wd, wd_)))

\* _apply_guardrail_adjustment(wd, value, current_success, target_success,
\*     adjustment_pct, adjustment_mode, remaining, table, rate_grid, future_cf_avg)
apply_guardrail_adjustment(wd_, value_, cur, target, pct, mode, remaining, tbl, grid, cf_avg) ==
    IF mode = "success_rate"
    THEN LET adjusted_success == RAdd(cur,
                                      RMul(pct, RSub(target, cur)))
             adjusted_rate    == find_rate_for_target(tbl, grid, adjusted_success,
                                                      remaining)
         IN  RAdd(RMul(value_, adjusted_rate), cf_avg)
    ELSE LET target_rate == find_rate_for_target(tbl, grid, target, remaining)
             target_wd   == RAdd(RMul(value_, target_rate), cf_avg)
         IN  RAdd(wd_, RMul(pct, RSub(target_wd, wd_)))

(***************************************************************************)
(* _find_portfolio_for_success (simulator/guardrail.py)                    *)
(***************************************************************************)
\* defaults of _find_portfolio_for_success
max_iter == 25
tol == Rat(1, 200)

RECURSIVE FinalValue(_, _, _, _, _, _)
\* _success_rate, one path: the value after the years from `year` on (lines 226-230)
FinalValue(returns, cf_row, withdrawal, value_, year_, n_years) ==
    IF year_ >= n_years THEN value_
    ELSE LET v1 == RSub(RMul(value_, RAdd(ROne, returns[year_ + 1])), withdrawal)
             v2 == IF cf_row = None THEN v1 ELSE RAdd(v1, cf_row[year_ + 1])
         IN  FinalValue(returns, cf_row, withdrawal, RMax(v2, RZero), year_ + 1, n_years)

\* _success_rate(portfolio) (lines 224-231)
success_rate_(scens, withdrawal, n_years, cf_2d, portfolio) ==
    MeanTrue([p \in 1..Len(scens) |->
                RPos(FinalValue(scens[p], IF cf_2d = None THEN None ELSE cf_2d[p],
                                withdrawal, portfolio, 0, n_years))])

\* n_years and cf_2d of _find_portfolio_for_success (lines 213-222); cf_matrix is
\* None or two-dimensional
SearchYears(scens, years) == Min2(years, Len(scens[1]))
SearchCf(cf_mat, n_years) ==
    IF cf_mat = None THEN None
    ELSE [p \in 1..Len(cf_mat) |-> Take(cf_mat[p], n_years)]

\* the test of line 246 with `<=` and a tolerance that every rate meets
WithinTol_Always(sr, target, tolerance) ==
    RLe(RSub(RMax(sr, target), RMin(sr, target)), ROne)

\* abs(sr - target_success) < tol
WithinTol(sr, target, tolerance) ==
    RLt(RSub(RMax(sr, target), RMin(sr, target)), tolerance)

(***************************************************************************)
(* The year step shared by the path simulators                             *)
(***************************************************************************)
\* the withdrawal of a year with the band taken around the original amount
YearWithdrawal_OriginalBand(strategy, year_, value_, prev, annual, initial_rate, ceiling, floor) ==
    IF strategy = "dynamic" /\ year_ > 0 /\ RPos(value_)
    THEN LET target == RMul(value_, initial_rate)
             upper  == RMul(annual, RAdd(ROne, ceiling))
             lower  == RMul(annual, RSub(ROne, floor))
         IN  RMax(lower, RMin(target, upper))
    ELSE annual

\* the withdrawal of a year in run_simulation and _simulate_success_rate
\* (monte_carlo.py 133-139, sweep.py 145-151)
YearWithdrawal(strategy, year_, value_, prev, annual, initial_rate, ceiling, floor) ==
    IF strategy = "dynamic" /\ year_ > 0 /\ RPos(value_)
    THEN LET target == RMul(value_, initial_rate)
             upper  == RMul(prev, RAdd(ROne, ceiling))
             lower  == RMul(prev, RSub(ROne, floor))
         IN  RMax(lower, RMin(target, upper))
    ELSE annual

\* initial_rate of run_simulation and _simulate_success_rate
InitialRate(annual, portfolio) ==
    IF RPos(portfolio) THEN RDiv(annual, portfolio) ELSE RZero

\* the year step with `value * real_return` in place of `value * (1 + real_return)`
YearEndValue_NoPrincipal(value_, ret, withdrawal, cf_sched, year_) ==
    LET v1 == RSub(RMul(value_, ret), withdrawal)
    IN  IF cf_sched = None THEN v1 ELSE RAdd(v1, cf_sched[year_ + 1])

\* the year step with `value -= cf_schedule[year]` in place of line 148
YearEndValue_SubtractCf(value_, ret, withdrawal, cf_sched, year_) ==
    LET v1 == RSub(RMul(value_, RAdd(ROne, ret)), withdrawal)
    IN  IF cf_sched = None THEN v1 ELSE RSub(v1, cf_sched[year_ + 1])

\* the year step with the cash flow added before the return is applied
YearEndValue_CfCompounded(value_, ret, withdrawal, cf_sched, year_) ==
    LET v0 == IF cf_sched = None THEN value_ ELSE RAdd(value_, cf_sched[year_ + 1])
    IN  RSub(RMul(v0, RAdd(ROne, ret)), withdrawal)

\* value after the return, the withdrawal and the cash flow of a year
YearEndValue(value_, ret, withdrawal, cf_sched, year_) ==
    LET v1 == RSub(RMul(value_, RAdd(ROne, ret)), withdrawal)
    IN  IF cf_sched = None THEN v1 ELSE RAdd(v1, cf_sched[year_ + 1])

\* the entry without line 149, `withdrawals[i, year] -= cf_schedule[year]`
WithdrawalEntry_Gross(withdrawal, cf_sched, year_) == withdrawal

\* the entry written to withdrawals[i, year]
WithdrawalEntry(withdrawal, cf_sched, year_) ==
    IF cf_sched = None THEN withdrawal ELSE RSub(withdrawal, cf_sched[year_ + 1])

\* the ruin test `value <= 0`
IsRuined(v) == RLe(v, RZero)

\* row after `row[year + 1:] = 0.0` (columns are numbered from 0 in the code)
ZeroFrom(row, col) == [c \in 1..Len(row) |-> IF c - 1 >= col THEN RZero ELSE row[c]]

\* the trajectory row when the value is stored without the test `value <= 0`
TrajectoryAfter_NoPin(row, year_, v) == [row EXCEPT ![year_ + 2] = v]

\* the trajectory row after a year step that left value v computed in `year`
TrajectoryAfter(row, year_, v) ==
    IF IsRuined(v) THEN ZeroFrom(row, year_ + 1)
    ELSE [row EXCEPT ![year_ + 2] = v]

\* the withdrawals row after a year step: the entry of the year, then the zeroing
\* of the later years on ruin
WithdrawalsAfter(row, year_, entry, v) ==
    LET written == [row EXCEPT ![year_ + 1] = entry]
    IN  IF IsRuined(v) THEN ZeroFrom(written, year_ + 1) ELSE written

\* the cash-flow schedule of a path: the inflation-adjusted items plus, when an
\* inflation series is at hand, the nominal items deflated by it
AdjCfs(cfs) == SelectSeq(cfs, LAMBDA cf : cf.inflation_adjusted)
NominalCfs(cfs) == SelectSeq(cfs, LAMBDA cf : ~cf.inflation_adjusted)
FixedCfSchedule(cfs, years) == build_cf_schedule(AdjCfs(cfs), years, None).schedule
PathCfSchedule(cfs, years, series) ==
    IF cfs = << >> THEN None
    ELSE IF NominalCfs(cfs) # << >> /\ series # None
    THEN VecAdd(FixedCfSchedule(cfs, years),
                build_cf_schedule(NominalCfs(cfs), years, series).schedule)
    ELSE FixedCfSchedule(cfs, years)

(***************************************************************************)
(* Functions not under call                                                *)
(***************************************************************************)
BbIdle ==
    /\ returns_df = << >>
    /\ min_block = 1
    /\ max_block = 1
    /\ rng = default_rng(NoSeed)
    /\ stream = [s \in Seeds |-> << >>]
    /\ sampled_rows = << >>
    /\ total_sampled = 0
    /\ sampled = << >>

CfIdle ==
    /\ cash_flows = << >>
    /\ inflation_series = None
    /\ cf_result = [raised |-> FALSE, schedule |-> << >>]

RsArgsIdle ==
    /\ allocation = << >>
    /\ expense_ratios = << >>
    /\ annual_withdrawal = RZero
    /\ withdrawal_strategy = "fixed"
    /\ dynamic_ceiling = RZero
    /\ dynamic_floor = RZero
    /\ num_simulations = 0
    /\ seed = NoSeed

GrArgsIdle ==
    /\ scenarios = << >>
    /\ inflation_matrix = None
    /\ table = << >>
    /\ rate_grid = << >>
    /\ target_success = RZero
    /\ upper_guardrail = RZero
    /\ lower_guardrail = RZero
    /\ adjustment_pct = RZero
    /\ adjustment_mode = "amount"
    /\ min_remaining_years = 0
    /\ baseline_rate = RZero

\* no path simulator has started
SimLocalsIdle ==
    /\ i = 0
    /\ year = 0
    /\ value = RZero
    /\ wd = RZero
    /\ real_returns = << >>
    /\ cf_schedule = None
    /\ cf_matrix = None
    /\ trajectories = << >>
    /\ withdrawals = << >>
    /\ survived = 0
    /\ lo = RZero
    /\ hi = RZero
    /\ iter = 0

NoResult == [sampled |-> << >>, trajectories |-> << >>, withdrawals |-> << >>]

DetIdle ==
    /\ call = 1
    /\ first = NoResult

\* no function is called on its own
FnIdle ==
    /\ args = None
    /\ result = None

SimIdle ==
    /\ RsArgsIdle
    /\ GrArgsIdle
    /\ initial_portfolio = RZero
    /\ SimLocalsIdle
    /\ DetIdle
    /\ FnIdle

(***************************************************************************)
(* block_bootstrap: the call                                               *)
(***************************************************************************)
\* a slip: the loop condition as total_sampled <= retirement_years, which draws
\* one more block when the accumulated length equals retirement_years
BB_Block_OffByOne ==
    /\ pc = "bb_loop"
    /\ total_sampled <= retirement_years
    /\ LET n == Len(returns_df) IN
       \E d1 \in Integers_(rng, stream, min_block, max_block + 1) :
       \E d2 \in Integers_(d1[2], d1[3], 0, n) :
          /\ sampled_rows' = Append(sampled_rows, TakeRows(returns_df, RingIndices(d2[1], d1[1], n)))
          /\ total_sampled' = total_sampled + d1[1]
          /\ rng' = d2[2]
          /\ stream' = d2[3]
    /\ UNCHANGED << fn, pc, retirement_years, returns_df, min_block, max_block, sampled >>
    /\ UNCHANGED << cfVars, simVars >>

\* one iteration of the sampling loop (lines 52-63)
BB_Block ==
    /\ pc = "bb_loop"
    /\ total_sampled < retirement_years
    /\ LET n == Len(returns_df) IN
       \E d1 \in Integers_(rng, stream, min_block, max_block + 1) :
       \E d2 \in Integers_(d1[2], d1[3], 0, n) :
          LET block_size == d1[1]
              start      == d2[1]
              indices    == RingIndices(start, block_size, n)
              block      == TakeRows(returns_df, indices)
          IN  /\ sampled_rows' = Append(sampled_rows, block)
              /\ total_sampled' = total_sampled + block_size
              /\ rng' = d2[2]
              /\ stream' = d2[3]
    /\ UNCHANGED << fn, pc, retirement_years, returns_df, min_block, max_block, sampled >>
    /\ UNCHANGED << cfVars, simVars >>

\* the loop exit, the concatenation and the truncation (lines 52, 66-68)
BB_Return ==
    /\ pc = "bb_loop"
    /\ ~(total_sampled < retirement_years)
    /\ sampled' = Truncated(sampled_rows, retirement_years)
    /\ pc' = IF fn = "run_simulation" THEN "rs_path" ELSE "done"
    /\ UNCHANGED << fn, retirement_years, returns_df, min_block, max_block, rng, stream,
                    sampled_rows, total_sampled >>
    /\ UNCHANGED << cfVars, simVars >>

\* the historical dataset of n rows used for block_bootstrap on its own; its rows
\* share column values, so a row assembled from several rows is not a row of it
BbDataset(n) == [k \in 1..n |-> << Z(k % 2), Z(k), Z(k \div 2), Z(0) >>]

\* block_bootstrap(returns_df, retirement_years, min_block, max_block, rng) is
\* called with a fresh generator made from one of the seeds
InitBlockBootstrap(seeds) ==
    /\ fn = "block_bootstrap"
    /\ pc = "bb_loop"
    /\ \E n \in 1..MaxRows : returns_df = BbDataset(n)
    /\ retirement_years \in 1..BbMaxYears
    /\ min_block \in 1..MaxBlock
    /\ max_block \in min_block..MaxBlock
    /\ \E s \in seeds : rng = default_rng(s)
    /\ stream = [s \in Seeds |-> << >>]
    /\ sampled_rows = << >>
    /\ total_sampled = 0
    /\ sampled = << >>
    /\ CfIdle
    /\ SimIdle

InitBootstrap == InitBlockBootstrap({NoSeed})

NextBootstrap == BB_Block \/ BB_Return

SpecBootstrap == InitBootstrap /\ [][NextBootstrap]_vars

\* the call runs to its end: the loop body and the return are steps of one
\* sequential function, taken whenever they are possible
SpecBootstrapLive == InitBootstrap /\ [][NextBootstrap]_vars /\ WF_vars(NextBootstrap)

(***************************************************************************)
(* build_cf_schedule: the call                                             *)
(***************************************************************************)
CF_Build ==
    /\ fn = "build_cf_schedule"
    /\ pc = "call"
    /\ cf_result' = build_cf_schedule(cash_flows, retirement_years, inflation_series)
    /\ pc' = "done"
    /\ UNCHANGED << fn, retirement_years, cash_flows, inflation_series >>
    /\ UNCHANGED << bbVars, simVars >>

\* the amount of the k-th item of a list: items of one list differ in amount
CfAmount(k) == Z(3 * k - 4)
CfDurations == {1, 2}
InflationRates == {RZero, Rat(1, 2)}

\* the items that may stand at position k of a list for horizon years: start years
\* from 0 (before the horizon) to years + 1 (after it)
CfItems(k, years) ==
    [amount : {CfAmount(k)}, start_year : 0..(years + 1), duration : CfDurations,
     inflation_adjusted : BOOLEAN]

CfLists(years) ==
    UNION { { cfs \in [1..len -> UNION { CfItems(k, years) : k \in 1..len }] :
                \A k \in 1..len : cfs[k] \in CfItems(k, years) } : len \in 0..CfMaxItems }

InitCashFlow ==
    /\ fn = "build_cf_schedule"
    /\ pc = "call"
    /\ retirement_years \in 1..CfMaxYears
    /\ cash_flows \in CfLists(retirement_years)
    /\ inflation_series \in {None} \cup [1..retirement_years -> InflationRates]
    /\ cf_result = [raised |-> FALSE, schedule |-> << >>]
    /\ BbIdle
    /\ SimIdle

NextCashFlow == CF_Build

SpecCashFlow == InitCashFlow /\ [][NextCashFlow]_vars

(***************************************************************************)
(* run_simulation (simulator/monte_carlo.py)                               *)
(***************************************************************************)
\* longest horizon and largest number of paths given to the path simulators
SimMaxYears == 2
MaxSims == 2

\* np.zeros((rows, cols)) with column 0 set to first
Matrix(rows, cols, first_col) ==
    [p \in 1..rows |-> [c \in 1..cols |-> IF c = 1 THEN first_col ELSE RZero]]

\* the state in which the sampling loop of block_bootstrap starts
BB_Enter ==
    /\ sampled_rows' = << >>
    /\ total_sampled' = 0
    /\ sampled' = << >>

\* lines 81-101 with a generator that ignores seed
RS_Enter_Unseeded ==
    /\ fn = "run_simulation"
    /\ pc = "entry"
    /\ rng' = default_rng(NoSeed)
    /\ trajectories' = Matrix(num_simulations, retirement_years + 1, initial_portfolio)
    /\ withdrawals' = Matrix(num_simulations, retirement_years, RZero)
    /\ i' = 0
    /\ BB_Enter
    /\ pc' = "bb_loop"
    /\ UNCHANGED << fn, retirement_years, returns_df, min_block, max_block, stream,
                    cfVars, rsArgs, grArgs, fnVars, detVars, searchVars, initial_portfolio,
                    year, value, wd, real_returns, cf_schedule, cf_matrix, survived >>

\* lines 81-101: the generator, the result matrices, the first path
RS_Enter ==
    /\ fn = "run_simulation"
    /\ pc = "entry"
    /\ rng' = default_rng(seed)
    /\ trajectories' = Matrix(num_simulations, retirement_years + 1, initial_portfolio)
    /\ withdrawals' = Matrix(num_simulations, retirement_years, RZero)
    /\ i' = 0
    /\ BB_Enter
    /\ pc' = "bb_loop"
    /\ UNCHANGED << fn, retirement_years, returns_df, min_block, max_block, stream,
                    cfVars, rsArgs, grArgs, fnVars, detVars, searchVars, initial_portfolio,
                    year, value, wd, real_returns, cf_schedule, cf_matrix, survived >>

\* lines 110-129: block_bootstrap has returned; returns and cash flows of the path
RS_Path ==
    /\ fn = "run_simulation"
    /\ pc = "rs_path"
    /\ real_returns' = compute_real_portfolio_returns(sampled, allocation, expense_ratios)
    /\ cf_schedule' = PathCfSchedule(cash_flows, retirement_years, InflationColumn(sampled))
    /\ value' = initial_portfolio
    /\ wd' = annual_withdrawal
    /\ year' = 0
    /\ sampled_rows' = << >>    \* the frame of block_bootstrap is gone
    /\ total_sampled' = 0
    /\ pc' = "rs_year"
    /\ UNCHANGED << fn, retirement_years, returns_df, min_block, max_block, rng, stream,
                    sampled, cfVars, rsArgs, grArgs, fnVars, detVars, searchVars, initial_portfolio, i,
                    cf_matrix, trajectories, withdrawals, survived >>

\* lines 131-156: one year of the path; on ruin or after the last year the loop
\* over the paths goes on with the next call of block_bootstrap, or the call returns
RS_Year ==
    /\ fn = "run_simulation"
    /\ pc = "rs_year"
    /\ LET withdrawal == YearWithdrawal(withdrawal_strategy, year, value, wd,
                                        annual_withdrawal,
                                        InitialRate(annual_withdrawal, initial_portfolio),
                                        dynamic_ceiling, dynamic_floor)
           v          == YearEndValue(value, real_returns[year + 1], withdrawal,
                                      cf_schedule, year)
           entry      == WithdrawalEntry(withdrawal, cf_schedule, year)
           path_ends  == IsRuined(v) \/ year + 1 = retirement_years
       IN  /\ wd' = withdrawal
           /\ value' = IF IsRuined(v) THEN RZero ELSE v
           /\ trajectories' = [trajectories EXCEPT ![i + 1] = TrajectoryAfter(@, year, v)]
           /\ withdrawals' = [withdrawals EXCEPT
                                ![i + 1] = WithdrawalsAfter(@, year, entry, v)]
           /\ year' = year + 1
           /\ IF ~path_ends
              THEN /\ pc' = "rs_year"
                   /\ UNCHANGED << i, sampled_rows, total_sampled, sampled >>
              ELSE IF i + 1 < num_simulations
              THEN /\ pc' = "bb_loop"
                   /\ i' = i + 1
                   /\ BB_Enter
              ELSE /\ pc' = "done"
                   /\ UNCHANGED << i, sampled_rows, total_sampled, sampled >>
    /\ UNCHANGED << fn, retirement_years, returns_df, min_block, max_block, rng, stream,
                    cfVars, rsArgs, grArgs, fnVars, detVars, searchVars, initial_portfolio, real_returns,
                    cf_schedule, cf_matrix, survived >>

\* rows <<us, intl, bond, inflation>> of the datasets given to run_simulation: a
\* year of +100% real with 50% inflation, a year of -50%, a year of total loss
RowBoom == << Z(2), Z(2), Z(2), Rat(1, 2) >>
RowBust == << Rat(-1, 2), Rat(-1, 2), Rat(-1, 2), RZero >>
RowWipe == << Z(-1), Z(-1), Z(-1), RZero >>
SimDatasets == { << RowBoom, RowBust >>, << RowBoom, RowWipe >> }

SimAllocation == [us_stock |-> Rat(1, 2), intl_stock |-> Rat(1, 4), us_bond |-> Rat(1, 4)]
NoExpenses == [us_stock |-> RZero, intl_stock |-> RZero, us_bond |-> RZero]

\* cash-flow lists given to the path simulators: none, an inflation-adjusted income
\* in year 2, a nominal expense in years 1 and 2
IncomeItem == [amount |-> Z(2), start_year |-> 2, duration |-> 1,
               inflation_adjusted |-> TRUE]
NominalItem == [amount |-> Z(-1), start_year |-> 1, duration |-> 2,
                inflation_adjusted |-> FALSE]
SimCashFlows == { << >>, << IncomeItem >>, << NominalItem >> }

\* run_simulation(initial_portfolio, annual_withdrawal, allocation, expense_ratios,
\*     retirement_years, min_block, max_block, num_simulations, returns_df, seed,
\*     withdrawal_strategy, dynamic_ceiling, dynamic_floor, cash_flows) is called
InitRunSimulation(seeds) ==
    /\ fn = "run_simulation"
    /\ pc = "entry"
    /\ returns_df \in SimDatasets
    /\ retirement_years \in 1..SimMaxYears
    /\ min_block = 1
    /\ max_block = 2
    /\ rng = default_rng(NoSeed)
    /\ stream = [s \in Seeds |-> << >>]
    /\ sampled_rows = << >>
    /\ total_sampled = 0
    /\ sampled = << >>
    /\ cash_flows \in SimCashFlows
    /\ inflation_series = None
    /\ cf_result = [raised |-> FALSE, schedule |-> << >>]
    /\ allocation = SimAllocation
    /\ expense_ratios = NoExpenses
    /\ initial_portfolio = Z(2)
    /\ annual_withdrawal \in { Z(0), Z(1), Z(3) }
    /\ withdrawal_strategy \in { "fixed", "dynamic" }
    /\ dynamic_ceiling = Rat(1, 2)
    /\ dynamic_floor = Rat(1, 4)
    /\ num_simulations \in 1..MaxSims
    /\ seed \in seeds
    /\ GrArgsIdle
    /\ SimLocalsIdle
    /\ DetIdle
    /\ FnIdle

(***************************************************************************)
(* run_guardrail_simulation, run_fixed_baseline (simulator/guardrail.py)   *)
(* and _simulate_success_rate (simulator/sweep.py)                         *)
(***************************************************************************)
\* inflation_matrix[i], or None when there is no matrix
InflationOfPath(p) == IF inflation_matrix = None THEN None ELSE inflation_matrix[p + 1]

\* lines 310-330 of run_guardrail_simulation: cf_matrix
GuardrailCfMatrix ==
    IF cash_flows = << >> THEN None
    ELSE [p \in 1..Len(scenarios) |->
            PathCfSchedule(cash_flows, retirement_years, InflationOfPath(p - 1))]

\* lines 333-335: initial_rate
GuardrailInitialRate ==
    LET found == find_rate_for_target(table, rate_grid, target_success, retirement_years)
    IN  IF RLe(found, RZero)
        THEN (IF Len(rate_grid) > 1 THEN rate_grid[2] ELSE Rat(1, 100))
        ELSE found

\* lines 339-341: initial_guess
GuardrailInitialGuess ==
    LET fixed         == FixedCfSchedule(cash_flows, retirement_years)
        init_cf_avg   == IF Len(fixed) > 0 THEN Mean(fixed) ELSE RZero
        effective_wd  == RSub(annual_withdrawal, init_cf_avg)
    IN  RDiv(RMax(effective_wd, RMul(annual_withdrawal, Rat(1, 10))),
             GuardrailInitialRate)

\* _success_rate(portfolio) for the arguments run_guardrail_simulation passes
SearchSuccessRate(cf_mat, portfolio) ==
    LET n_years == SearchYears(scenarios, retirement_years)
    IN  success_rate_(scenarios, annual_withdrawal, n_years, SearchCf(cf_mat, n_years),
                      portfolio)

\* lines 351-360: the result matrices and the first path, for initial portfolio p0
StartPaths(p0, cf_mat) ==
    /\ initial_portfolio' = p0
    /\ trajectories' = Matrix(Len(scenarios), retirement_years + 1, p0)
    /\ withdrawals' = Matrix(Len(scenarios), retirement_years, RZero)
    /\ i' = 0
    /\ value' = p0
    /\ wd' = annual_withdrawal
    /\ cf_schedule' = IF cf_mat = None THEN None ELSE cf_mat[1]
    /\ year' = 0
    /\ pc' = "g_year"

\* lines 307-348, and lines 212-241 of _find_portfolio_for_success when there are
\* cash flows: the cash-flow matrix, then either the initial portfolio or the
\* interval of the search for it
G_Enter ==
    /\ fn = "run_guardrail_simulation"
    /\ pc = "entry"
    /\ cf_matrix' = GuardrailCfMatrix
    /\ IF cash_flows # << >>
       THEN LET initial_guess == GuardrailInitialGuess
                lo0 == RMul(initial_guess, Rat(3, 10))
                hi0 == RMul(initial_guess, Z(3))
            IN  /\ hi' = IF RLt(SearchSuccessRate(cf_matrix', hi0), target_success)
                          THEN RMul(hi0, Z(3)) ELSE hi0
                /\ lo' = IF RLt(target_success, SearchSuccessRate(cf_matrix', lo0))
                          THEN RMul(lo0, Rat(3, 10)) ELSE lo0
                /\ iter' = 0
                /\ pc' = "fp_loop"
                /\ UNCHANGED << initial_portfolio, trajectories, withdrawals, i, value,
                                wd, cf_schedule, year >>
       ELSE /\ StartPaths(RDiv(annual_withdrawal, GuardrailInitialRate), cf_matrix')
            /\ UNCHANGED searchVars
    /\ UNCHANGED << fn, retirement_years, bbVars, cfVars, rsArgs, grArgs, fnVars, detVars,
                    real_returns, survived >>

\* The search loop is followed for SearchDepth iterations: a search that has not
\* ended by then goes on to max_iter halvings, whose midpoints no longer fit the
\* integers of the model checker.
SearchDepth == 4

\* lines 243-253 of _find_portfolio_for_success: one iteration of the search loop,
\* and the return to run_guardrail_simulation (lines 351-360)
FP_Iterate ==
    /\ pc = "fp_loop"
    /\ iter < SearchDepth
    /\ LET mid  == RDiv(RAdd(lo, hi), Z(2))
           sr   == SearchSuccessRate(cf_matrix, mid)
           lo1  == IF RLt(sr, target_success) THEN mid ELSE lo
           hi1  == IF RLt(sr, target_success) THEN hi ELSE mid
       IN  IF WithinTol(sr, target_success, tol)
           THEN /\ StartPaths(mid, cf_matrix)
                /\ iter' = iter + 1
                /\ UNCHANGED << lo, hi >>
           ELSE /\ lo' = lo1
                /\ hi' = hi1
                /\ iter' = iter + 1
                /\ IF iter + 1 = max_iter
                   THEN StartPaths(RDiv(RAdd(lo1, hi1), Z(2)), cf_matrix)
                   ELSE UNCHANGED << pc, initial_portfolio, trajectories, withdrawals,
                                     i, value, wd, cf_schedule, year >>
    /\ UNCHANGED << fn, retirement_years, bbVars, cfVars, rsArgs, grArgs, fnVars, detVars,
                    real_returns, cf_matrix, survived >>

\* max(min_remaining_years, retirement_years - year)
Remaining(year_) == Max2(min_remaining_years, retirement_years - year_)

\* np.mean(cf_schedule[year:year + actual_remaining]), 0.0 for an empty slice
FutureCfAvg(cf_sched, year_) ==
    LET future_slice == SubSeq(cf_sched, year_ + 1, Len(cf_sched))
    IN  IF Len(future_slice) > 0 THEN Mean(future_slice) ELSE RZero

\* lines 367-378: the success rate the table gives the current withdrawal
CurrentSuccess(wd_, value_, cf_sched, year_) ==
    LET effective_rate ==
            IF cf_sched # None
            THEN RMax(RDiv(RSub(wd_, FutureCfAvg(cf_sched, year_)), value_), RZero)
            ELSE RDiv(wd_, value_)
    IN  lookup_success_rate(table, rate_grid, effective_rate, Remaining(year_))

\* the guardrails are crossed: current_success < lower_guardrail or
\* current_success > upper_guardrail (lines 380 and 601)
GuardrailCrossed(current_success) ==
    RLt(current_success, lower_guardrail) \/ RLt(upper_guardrail, current_success)

\* the withdrawal of the year when the adjustment is applied in every year
GuardrailWithdrawal_AlwaysAdjust(wd_, value_, cf_sched, year_) ==
    IF ~RPos(value_) THEN wd_
    ELSE LET current_success == CurrentSuccess(wd_, value_, cf_sched, year_)
             cf_avg          == IF cf_sched # None THEN FutureCfAvg(cf_sched, year_)
                                ELSE RZero
         IN  apply_guardrail_adjustment(wd_, value_, current_success,
                 target_success, adjustment_pct, adjustment_mode,
                 Remaining(year_), table, rate_grid, cf_avg)

\* lines 363-387: the withdrawal of the year
GuardrailWithdrawal(wd_, value_, cf_sched, year_) ==
    IF ~RPos(value_) THEN wd_
    ELSE LET current_success == CurrentSuccess(wd_, value_, cf_sched, year_)
             cf_avg          == IF cf_sched # None THEN FutureCfAvg(cf_sched, year_)
                                ELSE RZero
         IN  IF RLt(current_success, lower_guardrail)
                \/ RLt(upper_guardrail, current_success)
             THEN apply_guardrail_adjustment(wd_, value_, current_success,
                      target_success, adjustment_pct, adjustment_mode,
                      Remaining(year_), table, rate_grid, cf_avg)
             ELSE wd_

\* the end of a year step in the loops over pre-generated scenarios: the next year,
\* the next path (lines 356-360) or the return
NextPathOrYear(v, loop_pc, path_value, path_cf) ==
    IF ~(IsRuined(v) \/ year + 1 = retirement_years)
    THEN /\ pc' = loop_pc
         /\ year' = year + 1
         /\ value' = v
         /\ UNCHANGED << i, cf_schedule >>
    ELSE IF i + 1 < Len(scenarios)
    THEN /\ pc' = loop_pc
         /\ i' = i + 1
         /\ year' = 0
         /\ value' = path_value
         /\ cf_schedule' = path_cf
    ELSE /\ pc' = "done"
         /\ year' = year + 1
         /\ value' = IF IsRuined(v) THEN RZero ELSE v
         /\ UNCHANGED << i, cf_schedule >>

\* lines 362-403: one year of a path
G_Year ==
    /\ fn = "run_guardrail_simulation"
    /\ pc = "g_year"
    /\ LET withdrawal == GuardrailWithdrawal(wd, value, cf_schedule, year)
           v          == YearEndValue(value, scenarios[i + 1][year + 1], withdrawal,
                                      cf_schedule, year)
           entry      == WithdrawalEntry(withdrawal, cf_schedule, year)
           path_ends  == IsRuined(v) \/ year + 1 = retirement_years
       IN  /\ trajectories' = [trajectories EXCEPT ![i + 1] = TrajectoryAfter(@, year, v)]
           /\ withdrawals' = [withdrawals EXCEPT
                                ![i + 1] = WithdrawalsAfter(@, year, entry, v)]
           /\ wd' = IF path_ends /\ i + 1 < Len(scenarios) THEN annual_withdrawal
                    ELSE withdrawal
           /\ NextPathOrYear(v, "g_year", initial_portfolio,
                             IF cf_matrix = None THEN None ELSE cf_matrix[i + 2])
    /\ UNCHANGED << fn, retirement_years, bbVars, cfVars, rsArgs, grArgs, fnVars, detVars, searchVars,
                    initial_portfolio, real_returns, cf_matrix, survived >>

\* lines 438-468 of run_fixed_baseline: up to the start of the first path
FB_Enter ==
    /\ fn = "run_fixed_baseline"
    /\ pc = "entry"
    /\ wd' = RMul(initial_portfolio, baseline_rate)
    /\ trajectories' = Matrix(Len(scenarios), retirement_years + 1, initial_portfolio)
    /\ withdrawals' = Matrix(Len(scenarios), retirement_years, RZero)
    /\ i' = 0
    /\ value' = initial_portfolio
    /\ cf_schedule' = PathCfSchedule(cash_flows, retirement_years, InflationOfPath(0))
    /\ year' = 0
    /\ pc' = "fb_year"
    /\ UNCHANGED << fn, retirement_years, bbVars, cfVars, rsArgs, grArgs, fnVars, detVars, searchVars,
                    initial_portfolio, real_returns, cf_matrix, survived >>

\* lines 470-484: one year of a path
FB_Year ==
    /\ fn = "run_fixed_baseline"
    /\ pc = "fb_year"
    /\ LET v     == YearEndValue(value, scenarios[i + 1][year + 1], wd, cf_schedule, year)
           entry == WithdrawalEntry(wd, cf_schedule, year)
       IN  /\ trajectories' = [trajectories EXCEPT ![i + 1] = TrajectoryAfter(@, year, v)]
           /\ withdrawals' = [withdrawals EXCEPT
                                ![i + 1] = WithdrawalsAfter(@, year, entry, v)]
           /\ NextPathOrYear(v, "fb_year", initial_portfolio,
                             PathCfSchedule(cash_flows, retirement_years,
                                            InflationOfPath(i + 1)))
    /\ UNCHANGED << fn, retirement_years, bbVars, cfVars, rsArgs, grArgs, fnVars, detVars, searchVars,
                    initial_portfolio, wd, real_returns, cf_matrix >>
    /\ UNCHANGED survived

\* lines 111-141 of _simulate_success_rate: up to the start of the first path
SS_Enter ==
    /\ fn = "_simulate_success_rate"
    /\ pc = "entry"
    /\ survived' = 0
    /\ i' = 0
    /\ value' = initial_portfolio
    /\ wd' = annual_withdrawal
    /\ cf_schedule' = PathCfSchedule(cash_flows, retirement_years, InflationOfPath(0))
    /\ year' = 0
    /\ pc' = "ss_year"
    /\ UNCHANGED << fn, retirement_years, bbVars, cfVars, rsArgs, grArgs, fnVars, detVars, searchVars,
                    initial_portfolio, real_returns, cf_matrix, trajectories,
                    withdrawals >>

\* lines 143-165: one year of a path
SS_Year ==
    /\ fn = "_simulate_success_rate"
    /\ pc = "ss_year"
    /\ LET withdrawal == YearWithdrawal(withdrawal_strategy, year, value, wd,
                                        annual_withdrawal,
                                        InitialRate(annual_withdrawal, initial_portfolio),
                                        dynamic_ceiling, dynamic_floor)
           v          == YearEndValue(value, scenarios[i + 1][year + 1], withdrawal,
                                      cf_schedule, year)
           path_ends  == IsRuined(v) \/ year + 1 = retirement_years
       IN  /\ survived' = IF path_ends /\ ~IsRuined(v) THEN survived + 1 ELSE survived
           /\ wd' = IF path_ends /\ i + 1 < Len(scenarios) THEN annual_withdrawal
                    ELSE withdrawal
           /\ NextPathOrYear(v, "ss_year", initial_portfolio,
                             PathCfSchedule(cash_flows, retirement_years,
                                            InflationOfPath(i + 1)))
    /\ UNCHANGED << fn, retirement_years, bbVars, cfVars, rsArgs, grArgs, fnVars, detVars, searchVars,
                    initial_portfolio, real_returns, cf_matrix, trajectories,
                    withdrawals >>

\* real returns of the pre-generated scenarios: a year of -50%, a year of +100%
SimReturns == { Rat(-1, 2), Z(1) }

RECURSIVE LexLe(_, _)
\* a comes no later than b in the lexicographic order of return sequences
LexLe(a, b) ==
    \/ a = << >>
    \/ RLt(Head(a), Head(b))
    \/ Head(a) = Head(b) /\ LexLe(Tail(a), Tail(b))

\* the matrices of n paths over the years; the simulators treat every path alike,
\* so the paths are listed in lexicographic order
ScenarioMatrices(n, years) ==
    { m \in [1..n -> [1..years -> SimReturns]] :
        \A p \in 1..(n - 1) : LexLe(m[p], m[p + 1]) }

\* no inflation matrix, or 50% inflation in every year of every path
InflationMatrices(n, years) == { None, [p \in 1..n |-> [t \in 1..years |-> Rat(1, 2)]] }

\* the rate grid of the table
GridMin == RZero
GridMax == ROne
GridStep == Rat(1, 4)

\* arguments shared by the simulators over pre-generated scenarios
InitScenarioCall ==
    /\ pc = "entry"
    /\ retirement_years \in 1..SimMaxYears
    /\ \E n \in 1..MaxSims :
          /\ scenarios \in ScenarioMatrices(n, retirement_years)
          /\ inflation_matrix \in InflationMatrices(n, retirement_years)
    /\ cash_flows \in SimCashFlows
    /\ inflation_series = None
    /\ cf_result = [raised |-> FALSE, schedule |-> << >>]
    /\ BbIdle
    /\ allocation = << >>
    /\ expense_ratios = << >>
    /\ num_simulations = 0
    /\ seed = NoSeed
    /\ SimLocalsIdle
    /\ DetIdle
    /\ FnIdle

\* run_guardrail_simulation(scenarios, annual_withdrawal, target_success,
\*     upper_guardrail, lower_guardrail, adjustment_pct, retirement_years,
\*     min_remaining_years, table, rate_grid, adjustment_mode, cash_flows,
\*     inflation_matrix) is called with the table built from the same scenarios
InitGuardrail ==
    /\ fn = "run_guardrail_simulation"
    /\ InitScenarioCall
    /\ LET built == build_success_rate_table(scenarios, GridMin, GridMax, GridStep)
       IN  table = built.table /\ rate_grid = built.rate_grid
    /\ annual_withdrawal = Z(1)
    /\ target_success = Rat(1, 2)
    /\ upper_guardrail = Rat(3, 4)
    /\ lower_guardrail = Rat(1, 4)
    /\ adjustment_pct = Rat(1, 2)
    /\ adjustment_mode \in { "amount", "success_rate" }
    /\ min_remaining_years = 1
    /\ baseline_rate = RZero
    /\ withdrawal_strategy = "fixed"
    /\ dynamic_ceiling = RZero
    /\ dynamic_floor = RZero
    /\ initial_portfolio = RZero

NoGuardrailArgs ==
    /\ table = << >>
    /\ rate_grid = << >>
    /\ target_success = RZero
    /\ upper_guardrail = RZero
    /\ lower_guardrail = RZero
    /\ adjustment_pct = RZero
    /\ adjustment_mode = "amount"
    /\ min_remaining_years = 0

\* run_fixed_baseline(scenarios, initial_portfolio, baseline_rate, retirement_years,
\*     cash_flows, inflation_matrix) is called
InitFixedBaseline ==
    /\ fn = "run_fixed_baseline"
    /\ InitScenarioCall
    /\ NoGuardrailArgs
    /\ initial_portfolio = Z(2)
    /\ baseline_rate \in { Rat(1, 4), Rat(1, 2) }
    /\ annual_withdrawal = RZero
    /\ withdrawal_strategy = "fixed"
    /\ dynamic_ceiling = RZero
    /\ dynamic_floor = RZero

\* _simulate_success_rate(real_returns_matrix, initial_portfolio, annual_withdrawal,
\*     withdrawal_strategy, dynamic_ceiling, dynamic_floor, cash_flows,
\*     inflation_matrix) is called; scenarios is its real_returns_matrix
InitSweep ==
    /\ fn = "_simulate_success_rate"
    /\ InitScenarioCall
    /\ NoGuardrailArgs
    /\ initial_portfolio = Z(2)
    /\ baseline_rate = RZero
    /\ annual_withdrawal \in { Z(0), Z(1) }
    /\ withdrawal_strategy \in { "fixed", "dynamic" }
    /\ dynamic_ceiling = Rat(1, 2)
    /\ dynamic_floor = Rat(1, 4)

(***************************************************************************)
(* The path simulators under call                                          *)
(***************************************************************************)
Init ==
    \/ InitRunSimulation({NoSeed})
    \/ InitGuardrail
    \/ InitFixedBaseline
    \/ InitSweep

Next ==
    \/ RS_Enter
    \/ BB_Block
    \/ BB_Return
    \/ RS_Path
    \/ RS_Year
    \/ G_Enter
    \/ FP_Iterate
    \/ G_Year
    \/ FB_Enter
    \/ FB_Year
    \/ SS_Enter
    \/ SS_Year

Spec == Init /\ [][Next]_vars

(***************************************************************************)
(* run_historical_backtest (simulator/guardrail.py)                        *)
(***************************************************************************)
HbMaxYears == 3

\* n_years = min(retirement_years, len(real_returns))
NYears == Min2(retirement_years, Len(real_returns))

\* lines 553-566: the cash-flow schedule of the single path, [raised |-> TRUE] for
\* the ValueError
BacktestCfSchedule ==
    IF cash_flows = << >> THEN [raised |-> FALSE, schedule |-> None]
    ELSE IF HasNominal(cash_flows)
    THEN IF inflation_series = None THEN [raised |-> TRUE, schedule |-> None]
         ELSE build_cf_schedule(cash_flows, NYears, Take(inflation_series, NYears))
    ELSE build_cf_schedule(cash_flows, NYears, None)

\* the scenarios the caller has built the table from
HbScenarios ==
    << << Rat(-1, 2), Rat(-1, 2), Rat(-1, 2) >>, << Z(1), Rat(-1, 2), Rat(-1, 2) >> >>

\* run_historical_backtest(real_returns, initial_portfolio, annual_withdrawal,
\*     target_success, upper_guardrail, lower_guardrail, adjustment_pct,
\*     retirement_years, min_remaining_years, baseline_rate, table, rate_grid,
\*     adjustment_mode, cash_flows, inflation_series) is called
InitBacktest ==
    /\ fn = "run_historical_backtest"
    /\ pc = "entry"
    /\ retirement_years \in 1..HbMaxYears
    /\ \E n \in 1..HbMaxYears :
          /\ real_returns \in [1..n -> SimReturns]
          /\ inflation_series \in { None, [t \in 1..n |-> Rat(1, 2)] }
    /\ initial_portfolio = Z(2)
    /\ annual_withdrawal \in { Rat(1, 2), Z(1) }
    /\ target_success = Rat(1, 2)
    /\ upper_guardrail = Rat(3, 4)
    /\ lower_guardrail = Rat(1, 4)
    /\ adjustment_pct = Rat(1, 2)
    /\ adjustment_mode \in { "amount", "success_rate" }
    /\ min_remaining_years = 1
    /\ baseline_rate = Rat(1, 4)
    /\ LET built == build_success_rate_table(HbScenarios, GridMin, GridMax, GridStep)
       IN  table = built.table /\ rate_grid = built.rate_grid
    /\ cash_flows \in SimCashFlows
    /\ cf_result = [raised |-> FALSE, schedule |-> << >>]
    /\ scenarios = << >>
    /\ inflation_matrix = None
    /\ BbIdle
    /\ allocation = << >>
    /\ expense_ratios = << >>
    /\ withdrawal_strategy = "fixed"
    /\ dynamic_ceiling = RZero
    /\ dynamic_floor = RZero
    /\ num_simulations = 0
    /\ seed = NoSeed
    /\ i = 0
    /\ year = 0
    /\ value = RZero
    /\ wd = RZero
    /\ cf_schedule = None
    /\ cf_matrix = None
    /\ trajectories = << >>
    /\ withdrawals = << >>
    /\ survived = 0
    /\ lo = RZero
    /\ hi = RZero
    /\ iter = 0
    /\ DetIdle
    /\ FnIdle

\* np.zeros(n)
ZeroVector(n) == [k \in 1..n |-> RZero]

\* lines 550-575: n_years, the cash-flow schedule, the arrays of the guardrail
\* strategy
HB_Enter ==
    /\ fn = "run_historical_backtest"
    /\ pc = "entry"
    /\ IF BacktestCfSchedule.raised
       THEN /\ result' = [raised |-> "ValueError"]
            /\ pc' = "raised"
            /\ UNCHANGED << value, wd, cf_schedule >>
       ELSE /\ cf_schedule' = BacktestCfSchedule.schedule
            /\ result' = [g_portfolio |-> [ZeroVector(NYears + 1) EXCEPT
                                              ![1] = initial_portfolio],
                          g_withdrawals |-> ZeroVector(NYears),
                          g_success_rates |-> ZeroVector(NYears),
                          adjustment_events |-> << >>,
                          b_portfolio |-> << >>,
                          b_withdrawals |-> << >>]
            /\ value' = initial_portfolio
            /\ wd' = annual_withdrawal
            /\ pc' = "hb_g_year"
    /\ UNCHANGED << fn, retirement_years, bbVars, cfVars, rsArgs, grArgs, searchVars,
                    detVars, args, initial_portfolio, i, year, real_returns, cf_matrix,
                    trajectories, withdrawals, survived >>

\* lines 601-623: the event appended when the guardrails are crossed
AdjustmentEvent(old_wd, new_wd, success_before) ==
    [year |-> year, old_wd |-> old_wd, new_wd |-> new_wd,
     success_before |-> success_before,
     success_after |-> CurrentSuccess(new_wd, value, cf_schedule, year)]

\* lines 577-632: one year of the guardrail strategy; after the last year, the
\* arrays of the baseline strategy
HB_GYear ==
    /\ fn = "run_historical_backtest"
    /\ pc = "hb_g_year"
    /\ \E current_success \in { IF RPos(value)
                                 THEN CurrentSuccess(wd, value, cf_schedule, year)
                                 ELSE RZero } :
       \E withdrawal \in { GuardrailWithdrawal(wd, value, cf_schedule, year) } :
       \E v \in { YearEndValue(value, real_returns[year + 1], withdrawal, cf_schedule,
                                year) } :
       \E end \in { IF IsRuined(v) THEN RZero ELSE v } :
          /\ wd' = withdrawal
          /\ result' =
                [result EXCEPT
                   !.g_success_rates[year + 1] = current_success,
                   !.adjustment_events =
                       IF RPos(value) /\ GuardrailCrossed(current_success)
                       THEN Append(@, AdjustmentEvent(wd, withdrawal, current_success))
                       ELSE @,
                   !.g_withdrawals[year + 1] =
                       WithdrawalEntry(withdrawal, cf_schedule, year),
                   !.g_portfolio[year + 2] = end,
                   !.b_portfolio =
                       IF year + 1 = NYears
                       THEN [ZeroVector(NYears + 1) EXCEPT ![1] = initial_portfolio]
                       ELSE @,
                   !.b_withdrawals = IF year + 1 = NYears THEN ZeroVector(NYears) ELSE @]
          /\ IF year + 1 = NYears
             THEN /\ value' = initial_portfolio
                  /\ year' = 0
                  /\ pc' = "hb_b_year"
             ELSE /\ value' = end
                  /\ year' = year + 1
                  /\ pc' = "hb_g_year"
    /\ UNCHANGED << fn, retirement_years, bbVars, cfVars, rsArgs, grArgs, searchVars,
                    detVars, args, initial_portfolio, i, real_returns, cf_schedule,
                    cf_matrix, trajectories, withdrawals, survived >>

\* lines 626 and 633-652: one year of the baseline strategy, and the return
HB_BYear ==
    /\ fn = "run_historical_backtest"
    /\ pc = "hb_b_year"
    /\ \E baseline_wd \in { RMul(initial_portfolio, baseline_rate) } :
       \E v \in { YearEndValue(value, real_returns[year + 1], baseline_wd, cf_schedule,
                                year) } :
       \E end \in { IF ~RPos(value) THEN value ELSE IF IsRuined(v) THEN RZero ELSE v } :
          /\ result' =
                [result EXCEPT
                   !.b_withdrawals[year + 1] =
                       IF RPos(value) THEN WithdrawalEntry(baseline_wd, cf_schedule, year)
                       ELSE RZero,
                   !.b_portfolio[year + 2] = end]
          /\ value' = end
    /\ year' = year + 1
    /\ pc' = IF year + 1 = NYears THEN "done" ELSE "hb_b_year"
    /\ UNCHANGED << fn, retirement_years, bbVars, cfVars, rsArgs, grArgs, searchVars,
                    detVars, args, initial_portfolio, i, wd, real_returns, cf_schedule,
                    cf_matrix, trajectories, withdrawals, survived >>

\* run_historical_backtest, and run_guardrail_simulation beside it
InitGuardrails ==
    \/ InitBacktest
    \/ InitGuardrail

NextGuardrails ==
    \/ HB_Enter
    \/ HB_GYear
    \/ HB_BYear
    \/ G_Enter
    \/ FP_Iterate
    \/ G_Year

SpecGuardrails == InitGuardrails /\ [][NextGuardrails]_vars

(***************************************************************************)
(* The dynamic strategy over horizons long enough for the withdrawal of    *)
(* the year before to differ from annual_withdrawal                        *)
(***************************************************************************)
DynMaxYears == 3

\* run_simulation with one path, and _simulate_success_rate with two, under the
\* "dynamic" strategy
InitDynamic ==
    /\ pc = "entry"
    /\ retirement_years \in 1..DynMaxYears
    /\ withdrawal_strategy = "dynamic"
    /\ dynamic_ceiling = Rat(1, 2)
    /\ dynamic_floor = Rat(1, 4)
    /\ initial_portfolio = Z(2)
    /\ cash_flows \in SimCashFlows
    /\ inflation_series = None
    /\ cf_result = [raised |-> FALSE, schedule |-> << >>]
    /\ sampled_rows = << >>
    /\ total_sampled = 0
    /\ sampled = << >>
    /\ rng = default_rng(NoSeed)
    /\ stream = [s \in Seeds |-> << >>]
    /\ seed = NoSeed
    /\ SimLocalsIdle
    /\ DetIdle
    /\ FnIdle
    /\ \/ /\ fn = "run_simulation"
          /\ returns_df \in SimDatasets
          /\ min_block = 1
          /\ max_block = 2
          /\ allocation = SimAllocation
          /\ expense_ratios = NoExpenses
          /\ annual_withdrawal \in { Z(1), Z(3) }
          /\ num_simulations = 1
          /\ GrArgsIdle
       \/ /\ fn = "_simulate_success_rate"
          /\ returns_df = << >>
          /\ min_block = 1
          /\ max_block = 1
          /\ allocation = << >>
          /\ expense_ratios = << >>
          /\ annual_withdrawal = Z(1)
          /\ num_simulations = 0
          /\ scenarios \in ScenarioMatrices(2, retirement_years)
          /\ inflation_matrix \in InflationMatrices(2, retirement_years)
          /\ NoGuardrailArgs
          /\ baseline_rate = RZero

NextDynamic ==
    \/ RS_Enter
    \/ BB_Block
    \/ BB_Return
    \/ RS_Path
    \/ RS_Year
    \/ SS_Enter
    \/ SS_Year

SpecDynamic == InitDynamic /\ [][NextDynamic]_vars

(***************************************************************************)
(* The same call made twice                                                *)
(***************************************************************************)
\* what a finished call has returned
Returned == [sampled |-> sampled, trajectories |-> trajectories,
             withdrawals |-> withdrawals]

\* A finished first call of block_bootstrap or run_simulation is followed by a
\* second call with equal arguments: block_bootstrap gets a fresh generator made
\* from the seed of the first one, run_simulation makes its own from seed.
Replay ==
    /\ pc = "done"
    /\ call = 1
    /\ fn \in { "block_bootstrap", "run_simulation" }
    /\ first' = Returned
    /\ call' = 2
    /\ rng' = default_rng(rng.seed)
    /\ BB_Enter
    /\ pc' = IF fn = "block_bootstrap" THEN "bb_loop" ELSE "entry"
    /\ i' = 0
    /\ year' = 0
    /\ value' = RZero
    /\ wd' = RZero
    /\ real_returns' = << >>
    /\ cf_schedule' = None
    /\ trajectories' = << >>
    /\ withdrawals' = << >>
    /\ UNCHANGED << fn, retirement_years, returns_df, min_block, max_block, stream,
                    cfVars, rsArgs, grArgs, fnVars, searchVars, initial_portfolio, cf_matrix,
                    survived >>

\* run_simulation with two paths, a withdrawal of 1 and a nominal cash flow, and
\* block_bootstrap on its own, each with a seed
InitDeterminism ==
    \/ /\ InitRunSimulation(Seeds)
       /\ num_simulations = 2
       /\ annual_withdrawal = Z(1)
       /\ cash_flows = << NominalItem >>
    \/ InitBlockBootstrap(Seeds)

NextDeterminism ==
    \/ RS_Enter
    \/ BB_Block
    \/ BB_Return
    \/ RS_Path
    \/ RS_Year
    \/ Replay

SpecDeterminism == InitDeterminism /\ [][NextDeterminism]_vars

\* positive inflation-adjusted incomes: CashFlowItem("income", amount, start_year,
\* duration, inflation_adjusted=True)
IncomeItems ==
    [amount : { Z(1), Z(2) }, start_year : { 1, 2 }, duration : { 1, 2 },
     inflation_adjusted : { TRUE }]

\* A finished seeded run_simulation call without cash flows is followed by a
\* second call that differs only in cash_flows = [income].
ReplayWithIncome ==
    /\ pc = "done"
    /\ call = 1
    /\ fn = "run_simulation"
    /\ cash_flows = << >>
    /\ first' = Returned
    /\ call' = 2
    /\ \E item \in IncomeItems : cash_flows' = << item >>
    /\ rng' = default_rng(rng.seed)
    /\ BB_Enter
    /\ pc' = "entry"
    /\ i' = 0
    /\ year' = 0
    /\ value' = RZero
    /\ wd' = RZero
    /\ real_returns' = << >>
    /\ cf_schedule' = None
    /\ trajectories' = << >>
    /\ withdrawals' = << >>
    /\ UNCHANGED << fn, retirement_years, returns_df, min_block, max_block, stream,
                    inflation_series, cf_result, rsArgs, grArgs, fnVars, searchVars,
                    initial_portfolio, cf_matrix, survived >>

\* run_simulation with a seed, two paths, a withdrawal and no cash flows
InitIncome ==
    /\ InitRunSimulation({ "seed42" })
    /\ num_simulations = 2
    /\ annual_withdrawal # RZero
    /\ cash_flows = << >>

NextIncome ==
    \/ RS_Enter
    \/ BB_Block
    \/ BB_Return
    \/ RS_Path
    \/ RS_Year
    \/ ReplayWithIncome

SpecIncome == InitIncome /\ [][NextIncome]_vars

\* survived / num_sims, the value _simulate_success_rate returns
SweepSuccessRate == Rat(survived, Len(scenarios))

(***************************************************************************)
(* build_success_rate_table called on its own                              *)
(***************************************************************************)
\* no path simulator is under call
NoPathSimulator ==
    /\ BbIdle
    /\ CfIdle
    /\ RsArgsIdle
    /\ initial_portfolio = RZero
    /\ SimLocalsIdle
    /\ DetIdle

\* the matrices of n paths over the years with returns from rets, the paths in
\* lexicographic order
SortedMatrices(n, years, rets) ==
    { m \in [1..n -> [1..years -> rets]] :
        \A p \in 1..(n - 1) : LexLe(m[p], m[p + 1]) }

\* real returns of the scenarios: -150% (a levered loss), -50%, +100%
TableReturns == { Rat(-3, 2), Rat(-1, 2), Z(1) }

\* build_success_rate_table(scenarios, rate_min, rate_max, rate_step) is called
\* with a grid of withdrawal rates that starts at 0 or above
InitTable ==
    /\ fn = "build_success_rate_table"
    /\ pc = "entry"
    /\ retirement_years \in 1..SimMaxYears
    /\ \E n \in 1..MaxSims : scenarios \in SortedMatrices(n, retirement_years, TableReturns)
    /\ args \in [rate_min : { RZero, Rat(1, 4) }, rate_max : { Rat(1, 2), ROne },
                  rate_step : { Rat(1, 4), Rat(1, 2) }]
    /\ result = None
    /\ inflation_matrix = None
    /\ NoGuardrailArgs
    /\ baseline_rate = RZero
    /\ NoPathSimulator

\* lines 46-62
BT_Build ==
    /\ fn = "build_success_rate_table"
    /\ pc = "entry"
    /\ result' = build_success_rate_table(scenarios, args.rate_min, args.rate_max,
                                          args.rate_step)
    /\ pc' = "done"
    /\ UNCHANGED << fn, retirement_years, bbVars, cfVars, rsArgs, grArgs, simLocals,
                    searchVars, detVars, args >>

NextTable == BT_Build

SpecTable == InitTable /\ [][NextTable]_vars

(***************************************************************************)
(* find_rate_for_target and lookup_success_rate called on their own        *)
(***************************************************************************)
LkMaxRates == 3

\* ascending rate grids of n rates, one evenly spaced from 0, one not evenly spaced
LookupGrids(n) ==
    { Take(<< RZero, Rat(1, 4), Rat(1, 2), Rat(3, 4), ROne >>, n),
      Take(<< Rat(1, 4), Rat(1, 2), Z(1), Z(3), Z(4) >>, n) }

LookupValues == { RZero, Rat(1, 2), ROne }

\* tables over n rates and two years: column 0 is 1, the other entries are free
LookupTables(n) ==
    { [r \in 1..n |-> << ROne, c1[r], c2[r] >>] :
        c1 \in [1..n -> LookupValues], c2 \in [1..n -> LookupValues] }

\* find_rate_for_target(table, rate_grid, target_success, remaining_years) is called
InitLookup ==
    /\ fn = "find_rate_for_target"
    /\ pc = "entry"
    /\ retirement_years = 2
    /\ \E n \in 2..LkMaxRates :
          /\ table \in LookupTables(n)
          /\ rate_grid \in LookupGrids(n)
    /\ target_success \in { Rat(1, 4), Rat(1, 2), Rat(3, 4), ROne, Rat(5, 4) }
    /\ args \in [remaining_years : 0..3]
    /\ result = None
    /\ scenarios = << >>
    /\ inflation_matrix = None
    /\ upper_guardrail = RZero
    /\ lower_guardrail = RZero
    /\ adjustment_pct = RZero
    /\ adjustment_mode = "amount"
    /\ min_remaining_years = 0
    /\ baseline_rate = RZero
    /\ NoPathSimulator

\* find_rate_for_target, lines 108-124
FR_Find ==
    /\ fn = "find_rate_for_target"
    /\ pc = "entry"
    /\ result' = [rate |-> find_rate_for_target(table, rate_grid, target_success,
                                                args.remaining_years)]
    /\ pc' = "found"
    /\ UNCHANGED << fn, retirement_years, bbVars, cfVars, rsArgs, grArgs, simLocals,
                    searchVars, detVars, args >>

\* lookup_success_rate at the rate found, lines 79-94
LS_Lookup ==
    /\ fn = "find_rate_for_target"
    /\ pc = "found"
    /\ result' = [rate |-> result.rate,
                  success |-> lookup_success_rate(table, rate_grid, result.rate,
                                                  args.remaining_years)]
    /\ pc' = "done"
    /\ UNCHANGED << fn, retirement_years, bbVars, cfVars, rsArgs, grArgs, simLocals,
                    searchVars, detVars, args >>

NextLookup == FR_Find \/ LS_Lookup

SpecLookup == InitLookup /\ [][NextLookup]_vars

(***************************************************************************)
(* _find_portfolio_for_success called on its own                           *)
(***************************************************************************)
\* real returns of the scenarios of the search: a flat year, a year of +100%
SearchReturns == { RZero, Z(1) }

\* cf_matrix: None, an expense of 1 or an income of 1/2 in every year of every path
SearchCfMatrices(n, years) ==
    { None } \cup { [p \in 1..n |-> [t \in 1..years |-> c]] : c \in { Z(-1), Rat(1, 2) } }

\* _find_portfolio_for_success(scenarios, annual_withdrawal, target_success,
\*     retirement_years, cf_matrix, initial_guess) is called with the default
\*     max_iter and tol
InitSearch ==
    /\ fn = "_find_portfolio_for_success"
    /\ pc = "entry"
    /\ retirement_years \in 1..SimMaxYears
    /\ \E n \in 1..MaxSims :
          /\ scenarios \in SortedMatrices(n, retirement_years, SearchReturns)
          /\ cf_matrix \in SearchCfMatrices(n, retirement_years)
    /\ annual_withdrawal \in { Z(1), Z(2) }
    /\ target_success \in { Rat(1, 2), ROne }
    /\ args = [initial_guess |-> Rat(100, 9)]
    /\ result = None
    /\ BbIdle
    /\ CfIdle
    /\ allocation = << >>
    /\ expense_ratios = << >>
    /\ withdrawal_strategy = "fixed"
    /\ dynamic_ceiling = RZero
    /\ dynamic_floor = RZero
    /\ num_simulations = 0
    /\ seed = NoSeed
    /\ inflation_matrix = None
    /\ table = << >>
    /\ rate_grid = << >>
    /\ upper_guardrail = RZero
    /\ lower_guardrail = RZero
    /\ adjustment_pct = RZero
    /\ adjustment_mode = "amount"
    /\ min_remaining_years = 0
    /\ baseline_rate = RZero
    /\ initial_portfolio = RZero
    /\ i = 0
    /\ year = 0
    /\ value = RZero
    /\ wd = RZero
    /\ real_returns = << >>
    /\ cf_schedule = None
    /\ trajectories = << >>
    /\ withdrawals = << >>
    /\ survived = 0
    /\ lo = RZero
    /\ hi = RZero
    /\ iter = 0
    /\ DetIdle

\* lines 212-241: the interval of the search
FS_Enter ==
    /\ fn = "_find_portfolio_for_success"
    /\ pc = "entry"
    /\ LET lo0 == RMul(args.initial_guess, Rat(3, 10))
           hi0 == RMul(args.initial_guess, Z(3))
       IN  /\ hi' = IF RLt(SearchSuccessRate(cf_matrix, hi0), target_success)
                     THEN RMul(hi0, Z(3)) ELSE hi0
           /\ lo' = IF RLt(target_success, SearchSuccessRate(cf_matrix, lo0))
                     THEN RMul(lo0, Rat(3, 10)) ELSE lo0
    /\ iter' = 0
    /\ pc' = "fs_loop"
    /\ UNCHANGED << fn, retirement_years, bbVars, cfVars, rsArgs, grArgs, simLocals,
                    detVars, fnVars >>

\* lines 243-253: one iteration of the loop, or the return after the last one;
\* iter counts the iterations that did not return
FS_Iterate ==
    /\ fn = "_find_portfolio_for_success"
    /\ pc = "fs_loop"
    /\ \E mid \in { RDiv(RAdd(lo, hi), Z(2)) } :
       \E sr \in { SearchSuccessRate(cf_matrix, mid) } :
          IF WithinTol(sr, target_success, tol)
          THEN /\ result' = mid
               /\ pc' = "done"
               /\ UNCHANGED << lo, hi, iter >>
          ELSE /\ lo' = IF RLt(sr, target_success) THEN mid ELSE lo
               /\ hi' = IF RLt(sr, target_success) THEN hi ELSE mid
               /\ iter' = iter + 1
               /\ IF iter + 1 = max_iter
                  THEN /\ result' = RDiv(RAdd(lo', hi'), Z(2))
                       /\ pc' = "done"
                  ELSE UNCHANGED << pc, result >>
    /\ UNCHANGED << fn, retirement_years, bbVars, cfVars, rsArgs, grArgs, simLocals,
                    detVars, args >>

NextSearch == FS_Enter \/ FS_Iterate

SpecSearch == InitSearch /\ [][NextSearch]_vars

(***************************************************************************)
(* lookup_success_rate called on its own                                   *)
(***************************************************************************)
\* rates below, on, between and above the rates of LookupGrids
ForwardRates ==
    { Rat(-1, 4), RZero, Rat(1, 8), Rat(1, 4), Rat(3, 8), Rat(1, 2), Rat(3, 4), ROne,
      Z(2) }

\* remaining_years below 0, inside the table and beyond max_years = 2
ForwardYears == { -1, 1, 3 }

\* lookup_success_rate(table, rate_grid, rate, remaining_years) is called
InitForward ==
    /\ fn = "lookup_success_rate"
    /\ pc = "entry"
    /\ retirement_years = 2
    /\ \E n \in 2..LkMaxRates :
          /\ table \in LookupTables(n)
          /\ rate_grid \in LookupGrids(n)
    /\ args \in [rate : ForwardRates, remaining_years : ForwardYears]
    /\ result = None
    /\ target_success = RZero
    /\ scenarios = << >>
    /\ inflation_matrix = None
    /\ upper_guardrail = RZero
    /\ lower_guardrail = RZero
    /\ adjustment_pct = RZero
    /\ adjustment_mode = "amount"
    /\ min_remaining_years = 0
    /\ baseline_rate = RZero
    /\ NoPathSimulator

\* lines 79-94
LS_Call ==
    /\ fn = "lookup_success_rate"
    /\ pc = "entry"
    /\ result' = lookup_success_rate(table, rate_grid, args.rate, args.remaining_years)
    /\ pc' = "done"
    /\ UNCHANGED << fn, retirement_years, bbVars, cfVars, rsArgs, grArgs, simLocals,
                    searchVars, detVars, args >>

NextForward == LS_Call

SpecForward == InitForward /\ [][NextForward]_vars

(***************************************************************************)
(* run_guardrail_simulation without cash flows, over grids that start at   *)
(* zero and above zero                                                     *)
(***************************************************************************)
\* real returns of the scenarios: a year of -100%, a year of +100%
SizingReturns == { Z(-1), Z(1) }

\* rate_min of the grid the table is built with
SizingRateMins == { RZero, Rat(1, 4) }

\* run_guardrail_simulation is called without cash flows, with the table built
\* from the same scenarios over a grid from rate_min to GridMax
InitSizing ==
    /\ fn = "run_guardrail_simulation"
    /\ pc = "entry"
    /\ retirement_years \in 1..SimMaxYears
    /\ \E n \in 1..MaxSims :
          scenarios \in SortedMatrices(n, retirement_years, SizingReturns)
    /\ inflation_matrix = None
    /\ CfIdle
    /\ BbIdle
    /\ allocation = << >>
    /\ expense_ratios = << >>
    /\ num_simulations = 0
    /\ seed = NoSeed
    /\ SimLocalsIdle
    /\ DetIdle
    /\ FnIdle
    /\ \E rate_min \in SizingRateMins :
          LET built == build_success_rate_table(scenarios, rate_min, GridMax, GridStep)
          IN  table = built.table /\ rate_grid = built.rate_grid
    /\ annual_withdrawal = Z(1)
    /\ target_success = Rat(1, 2)
    /\ upper_guardrail = Rat(3, 4)
    /\ lower_guardrail = Rat(1, 4)
    /\ adjustment_pct = Rat(1, 2)
    /\ adjustment_mode \in { "amount", "success_rate" }
    /\ min_remaining_years = 1
    /\ baseline_rate = RZero
    /\ withdrawal_strategy = "fixed"
    /\ dynamic_ceiling = RZero
    /\ dynamic_floor = RZero
    /\ initial_portfolio = RZero

NextSizing ==
    \/ G_Enter
    \/ G_Year

SpecSizing == InitSizing /\ [][NextSizing]_vars

(***************************************************************************)
(* interpolate_targets (simulator/sweep.py)                                *)
(***************************************************************************)
\* the first i of `for i in range(len(success_rates) - 1)` with
\* success_rates[i] >= t and success_rates[i + 1] < t, numbered from 1; 0 if none
FirstCrossing(success_rates, t) ==
    LET found == { j \in 1..(Len(success_rates) - 1) :
                     RLe(t, success_rates[j]) /\ RLt(success_rates[j + 1], t) }
    IN  IF found = {} THEN 0 ELSE CHOOSE j \in found : \A k \in found : j <= k

\* lines 460-461 with rates[i] and rates[i + 1] exchanged
InterpRate_Swapped(rates, success_rates, t, j) ==
    LET frac == RDiv(RSub(t, success_rates[j + 1]),
                     RSub(success_rates[j], success_rates[j + 1]))
    IN  RAdd(rates[j], RMul(frac, RSub(rates[j + 1], rates[j])))

\* lines 460-461: frac and interp_rate for the pair (i, i + 1)
InterpRate(rates, success_rates, t, j) ==
    LET frac == RDiv(RSub(t, success_rates[j + 1]),
                     RSub(success_rates[j], success_rates[j + 1]))
    IN  RAdd(rates[j + 1], RMul(frac, RSub(rates[j], rates[j + 1])))

\* the body of `for t in targets` (lines 450-466): what is appended to results
InterpolateTarget(rates, success_rates, t) ==
    IF RLt(success_rates[1], t) THEN None
    ELSE IF RLe(t, success_rates[Len(success_rates)]) THEN rates[Len(rates)]
    ELSE LET j == FirstCrossing(success_rates, t)
         IN  IF j = 0 THEN None ELSE InterpRate(rates, success_rates, t, j)

ItMaxRates == 3

\* ascending rates
InterpGrids(n) ==
    { Take(<< RZero, Rat(1, 4), Rat(1, 2), ROne, Z(2) >>, n),
      Take(<< Rat(1, 100), Rat(1, 50), Rat(1, 25), Rat(1, 10), Rat(1, 5) >>, n) }

\* success rates of a curve, in any order
InterpValues == { RZero, Rat(1, 2), ROne }

InterpTargets == { Rat(1, 4), Rat(1, 2), Rat(3, 4), ROne, Rat(5, 4) }

\* interpolate_targets(rates, success_rates, targets) is called with one or two
\* targets
InitInterpolate ==
    /\ fn = "interpolate_targets"
    /\ pc = "entry"
    /\ retirement_years = 1
    /\ \E n \in 2..ItMaxRates : \E len \in 1..2 :
          args \in [rates : InterpGrids(n), success_rates : [1..n -> InterpValues],
                    targets : [1..len -> InterpTargets]]
    /\ result = None
    /\ GrArgsIdle
    /\ NoPathSimulator

\* line 447
IT_Enter ==
    /\ fn = "interpolate_targets"
    /\ pc = "entry"
    /\ result' = << >>
    /\ pc' = "it_loop"
    /\ UNCHANGED << fn, retirement_years, bbVars, cfVars, rsArgs, grArgs, simLocals,
                    searchVars, detVars, args >>

\* one pass of `for t in targets`
IT_Target ==
    /\ fn = "interpolate_targets"
    /\ pc = "it_loop"
    /\ Len(result) < Len(args.targets)
    /\ result' = Append(result, InterpolateTarget(args.rates, args.success_rates,
                                                  args.targets[Len(result) + 1]))
    /\ UNCHANGED << fn, pc, retirement_years, bbVars, cfVars, rsArgs, grArgs, simLocals,
                    searchVars, detVars, args >>

\* line 468
IT_Return ==
    /\ fn = "interpolate_targets"
    /\ pc = "it_loop"
    /\ Len(result) = Len(args.targets)
    /\ pc' = "done"
    /\ UNCHANGED << fn, retirement_years, bbVars, cfVars, rsArgs, grArgs, simLocals,
                    searchVars, detVars, fnVars >>

NextInterpolate ==
    \/ IT_Enter
    \/ IT_Target
    \/ IT_Return

SpecInterpolate == InitInterpolate /\ [][NextInterpolate]_vars

(***************************************************************************)
(* compute_real_portfolio_returns called on its own                        *)
(***************************************************************************)
PfMaxYears == 2

\* rows <<us, intl, bond, inflation>>: the two rows of the tests and a loss
PortfolioRows ==
    { << Rat(1, 10), Rat(2, 25), Rat(1, 25), RZero >>,
      << Rat(1, 10), Rat(2, 25), Rat(1, 25), Rat(3, 100) >>,
      << Rat(-1, 2), Rat(-1, 4), RZero, Rat(1, 4) >> }

PortfolioAllocations ==
    { [us_stock |-> Rat(1, 2), intl_stock |-> Rat(3, 10), us_bond |-> Rat(1, 5)],
      [us_stock |-> Rat(3, 5), intl_stock |-> Rat(1, 5), us_bond |-> Rat(1, 5)] }

PortfolioExpenses ==
    { NoExpenses,
      [us_stock |-> Rat(1, 200), intl_stock |-> Rat(1, 100), us_bond |-> RZero] }

\* the keyword arguments of the callers: none (monte_carlo.py:110), or leverage
\* and borrowing_spread (sweep.py:67, test_core.py:116-117)
PortfolioKeywords ==
    { << >>,
      [leverage |-> ROne],
      [leverage |-> ROne, borrowing_spread |-> RZero],
      [leverage |-> Z(2), borrowing_spread |-> Rat(1, 100)] }

InitPortfolio ==
    /\ fn = "compute_real_portfolio_returns"
    /\ pc = "entry"
    /\ retirement_years \in 1..PfMaxYears
    /\ sampled \in [1..retirement_years -> PortfolioRows]
    /\ allocation \in PortfolioAllocations
    /\ expense_ratios \in PortfolioExpenses
    /\ args \in [keywords : PortfolioKeywords]
    /\ result = None
    /\ returns_df = << >>
    /\ min_block = 1
    /\ max_block = 1
    /\ rng = default_rng(NoSeed)
    /\ stream = [s \in Seeds |-> << >>]
    /\ sampled_rows = << >>
    /\ total_sampled = 0
    /\ CfIdle
    /\ annual_withdrawal = RZero
    /\ withdrawal_strategy = "fixed"
    /\ dynamic_ceiling = RZero
    /\ dynamic_floor = RZero
    /\ num_simulations = 0
    /\ seed = NoSeed
    /\ GrArgsIdle
    /\ initial_portfolio = RZero
    /\ SimLocalsIdle
    /\ DetIdle

\* the call: the binding of the arguments, then lines 34-51
PR_Call ==
    /\ fn = "compute_real_portfolio_returns"
    /\ pc = "entry"
    /\ result' = call_compute_real_portfolio_returns(sampled, allocation,
                                                     expense_ratios, args.keywords)
    /\ pc' = "done"
    /\ UNCHANGED << fn, retirement_years, bbVars, cfVars, rsArgs, grArgs, simLocals,
                    searchVars, detVars, args >>

NextPortfolio == PR_Call

SpecPortfolio == InitPortfolio /\ [][NextPortfolio]_vars

(***************************************************************************)
(* AllocationSchema(us_stock=..., intl_stock=..., us_bond=...)             *)
(***************************************************************************)
\* Field(..., ge=0, le=1) of schemas.py lines 13-15
FieldInRange(w) == RLe(RZero, w) /\ RLe(w, ROne)

\* the constructor: pydantic checks each field against its Field constraints;
\* the class has no validator over the three fields together
AllocationSchema(us, intl, bond) ==
    IF FieldInRange(us) /\ FieldInRange(intl) /\ FieldInRange(bond)
    THEN [raised |-> "None",
          value |-> [us_stock |-> us, intl_stock |-> intl, us_bond |-> bond]]
    ELSE [raised |-> "ValidationError", value |-> None]

\* the weights of the tests, the bounds of the fields and values outside them
SchemaWeights ==
    { Rat(-1, 10), RZero, Rat(1, 5), Rat(3, 10), Rat(333, 1000), Rat(334, 1000),
      Rat(1, 2), ROne, Rat(11, 10) }

InitSchema ==
    /\ fn = "AllocationSchema"
    /\ pc = "entry"
    /\ retirement_years = 1
    /\ args \in [us_stock : SchemaWeights, intl_stock : SchemaWeights,
                  us_bond : SchemaWeights]
    /\ result = None
    /\ GrArgsIdle
    /\ NoPathSimulator

AS_Construct ==
    /\ fn = "AllocationSchema"
    /\ pc = "entry"
    /\ result' = AllocationSchema(args.us_stock, args.intl_stock, args.us_bond)
    /\ pc' = "done"
    /\ UNCHANGED << fn, retirement_years, bbVars, cfVars, rsArgs, grArgs, simLocals,
                    searchVars, detVars, args >>

NextSchema == AS_Construct

SpecSchema == InitSchema /\ [][NextSchema]_vars

(***************************************************************************)
(* Properties of block_bootstrap                                           *)
(***************************************************************************)
RowsOf(data) == { data[k] : k \in 1..Len(data) }

\* C1: block_bootstrap returns exactly retirement_years rows, and each returned
\* row is a whole row of the input dataset.
C1_ShapeAndMembership ==
    (fn = "block_bootstrap" /\ pc = "done") =>
        /\ Len(sampled) = retirement_years
        /\ \A k \in 1..Len(sampled) : sampled[k] \in RowsOf(returns_df)

\* a call that needed several blocks, one of them wrapping past the end of the
\* dataset, and whose last block was truncated
C1_Witness ==
    /\ fn = "block_bootstrap" /\ pc = "done"
    /\ Len(sampled_rows) >= 2
    /\ total_sampled > retirement_years
    /\ \E b \in 1..Len(sampled_rows) : Len(sampled_rows[b]) > Len(returns_df)
    /\ Len(returns_df) >= 2

\* C2: a second call with equal arguments and the same seed returns what the first
\* call returned: block_bootstrap, given a fresh generator of the same seed, the
\* same rows in the same order; run_simulation the same trajectories and
\* withdrawals matrices.
C2_SameSeedSameResult ==
    (call = 2 /\ pc = "done") =>
        /\ fn = "block_bootstrap" /\ rng.seed \in Seeds => sampled = first.sampled
        /\ fn = "run_simulation" /\ seed \in Seeds =>
              /\ trajectories = first.trajectories
              /\ withdrawals = first.withdrawals

\* a seeded run_simulation has returned twice, and its two paths differ, so the
\* draws matter for the result
C2_Witness ==
    /\ call = 2 /\ pc = "done" /\ fn = "run_simulation" /\ seed \in Seeds
    /\ retirement_years = 2
    /\ trajectories[1] # trajectories[2]
    /\ withdrawals[1] # withdrawals[2]
    /\ trajectories = first.trajectories

(***************************************************************************)
(* Properties of build_cf_schedule                                         *)
(***************************************************************************)
\* C3: build_cf_schedule raises and returns no schedule whenever the list holds a
\* nominal item and no inflation series is supplied, wherever that item lies.
C3_NominalWithoutInflationRaises ==
    (fn = "build_cf_schedule" /\ pc = "done"
        /\ HasNominal(cash_flows) /\ inflation_series = None) =>
        (cf_result.raised /\ cf_result.schedule = << >>)

\* the ValueError for a nominal item that starts after the horizon
C3_Witness ==
    /\ fn = "build_cf_schedule" /\ pc = "done"
    /\ inflation_series = None
    /\ Len(cash_flows) = 1
    /\ ~cash_flows[1].inflation_adjusted
    /\ cash_flows[1].start_year > retirement_years
    /\ cf_result.raised

\* the items of the list that are active in 0-indexed year t: those that start
\* inside the horizon [1, years] and whose window holds t
ActiveItems(cfs, years, t) ==
    { k \in 1..Len(cfs) :
        /\ 1 <= cfs[k].start_year /\ cfs[k].start_year <= years
        /\ cfs[k].start_year - 1 <= t
        /\ t < cfs[k].start_year - 1 + cfs[k].duration }

\* the product of (1 + series[j]) for the 0-indexed years j = 0..t
RECURSIVE InflationFactor(_, _)
InflationFactor(series, t) ==
    IF t < 0 THEN ROne
    ELSE RMul(InflationFactor(series, t - 1), RAdd(ROne, series[t + 1]))

\* what item cf is worth in 0-indexed year t, in real terms
RealAmount(cf, series, t) ==
    IF cf.inflation_adjusted THEN cf.amount
    ELSE RDiv(cf.amount, InflationFactor(series, t))

RECURSIVE SumReal(_, _, _, _)
\* the sum of the real amounts of the items with index in S
SumReal(S, cfs, series, t) ==
    IF S = {} THEN RZero
    ELSE LET k == CHOOSE x \in S : TRUE
         IN  RAdd(RealAmount(cfs[k], series, t), SumReal(S \ {k}, cfs, series, t))

\* the simulators over pre-generated scenarios that take cash_flows and
\* inflation_matrix
ScenarioSimulators ==
    { "run_guardrail_simulation", "run_fixed_baseline", "_simulate_success_rate" }

\* C4: a call of run_guardrail_simulation, run_fixed_baseline or
\* _simulate_success_rate with a nominal cash flow and no inflation matrix fails
\* at schedule construction; it never completes.
C4_NominalWithoutMatrixFails ==
    (/\ fn \in ScenarioSimulators
     /\ NominalCfs(cash_flows) # << >>
     /\ inflation_matrix = None) => pc # "done"

\* C5: for inflation-adjusted items, year t of the schedule is the sum of the
\* amounts of the items that start inside [1, H] and whose window holds t; items
\* that start outside [1, H] add nothing and raise nothing; overlapping items add.
C5_AdjustedSchedule ==
    (fn = "build_cf_schedule" /\ pc = "done" /\ ~HasNominal(cash_flows)) =>
        /\ ~cf_result.raised
        /\ Len(cf_result.schedule) = retirement_years
        /\ \A t \in 0..(retirement_years - 1) :
              cf_result.schedule[t + 1] =
                 SumReal(ActiveItems(cash_flows, retirement_years, t), cash_flows, None, t)

\* two adjusted items that overlap in a year, one of them cut by the horizon
C5_Witness ==
    /\ fn = "build_cf_schedule" /\ pc = "done"
    /\ Len(cash_flows) = 2 /\ ~HasNominal(cash_flows)
    /\ retirement_years >= 2
    /\ \E t \in 0..(retirement_years - 1) :
          ActiveItems(cash_flows, retirement_years, t) = {1, 2}
    /\ \E k \in 1..2 :
          cash_flows[k].start_year - 1 + cash_flows[k].duration > retirement_years
    /\ ~cf_result.raised
    /\ \E t \in 1..retirement_years : cf_result.schedule[t] = RAdd(CfAmount(1), CfAmount(2))
    /\ \E t \in 1..retirement_years : cf_result.schedule[t] = RZero

\* C6: with an inflation series, a nominal item active in year t adds its amount
\* divided by the product of (1 + inflation[j]) for j = 0..t, the first year
\* included, and adds nothing to the years outside its window.
C6_NominalDeflated ==
    (fn = "build_cf_schedule" /\ pc = "done" /\ inflation_series # None) =>
        /\ ~cf_result.raised
        /\ \A t \in 0..(retirement_years - 1) :
              cf_result.schedule[t + 1] =
                 SumReal(ActiveItems(cash_flows, retirement_years, t), cash_flows,
                         inflation_series, t)

\* a nominal item that starts in year 1 of a horizon whose first year has
\* inflation: its first year is already deflated
C6_Witness ==
    /\ fn = "build_cf_schedule" /\ pc = "done"
    /\ Len(cash_flows) = 1 /\ ~cash_flows[1].inflation_adjusted
    /\ cash_flows[1].start_year = 1 /\ cash_flows[1].duration = 1
    /\ retirement_years >= 2
    /\ inflation_series # None
    /\ inflation_series[1] = Rat(1, 2)
    /\ cf_result.schedule[1] = RDiv(CfAmount(1), Rat(3, 2))
    /\ cf_result.schedule[2] = RZero


\* the simulators that return a trajectories and a withdrawals matrix
PathSimulators == { "run_simulation", "run_guardrail_simulation", "run_fixed_baseline" }

\* every year of the historical data has a real portfolio return above -100%
NoTotalLoss ==
    \A r \in 1..Len(returns_df) :
        RLt(Z(-1), RealReturn(returns_df[r], allocation, expense_ratios))

\* the last column of the trajectories is positive on every path
AllSurvive ==
    \A p \in 1..Len(trajectories) : RPos(trajectories[p][retirement_years + 1])

\* C7 (as stated): run_simulation with annual_withdrawal = 0, a positive initial
\* portfolio and no cash flows ends every path with a value above 0, whatever
\* the returns are.
C7_ZeroWithdrawalNeverRuins ==
    (/\ fn = "run_simulation" /\ pc = "done"
     /\ annual_withdrawal = RZero
     /\ RPos(initial_portfolio)
     /\ cash_flows = << >>) => AllSurvive

\* C7 (amended): the same when no year of the historical data has a real
\* portfolio return of -100% or less.
C7_ZeroWithdrawalNoTotalLoss ==
    (/\ fn = "run_simulation" /\ pc = "done"
     /\ annual_withdrawal = RZero
     /\ RPos(initial_portfolio)
     /\ cash_flows = << >>
     /\ NoTotalLoss) => AllSurvive

\* a finished run without withdrawal in which a path lost value in every year
\* and still ends above 0
C7_Witness ==
    /\ fn = "run_simulation" /\ pc = "done"
    /\ annual_withdrawal = RZero /\ cash_flows = << >> /\ NoTotalLoss
    /\ retirement_years = 2
    /\ \E p \in 1..Len(trajectories) :
          /\ RLt(trajectories[p][2], trajectories[p][1])
          /\ RLt(trajectories[p][3], trajectories[p][2])
          /\ RPos(trajectories[p][3])

\* C8 (as stated): with the "fixed" strategy every nonzero entry of the
\* withdrawals matrix of run_simulation equals annual_withdrawal.
C8_NonzeroEqualsAnnual ==
    (fn = "run_simulation" /\ withdrawal_strategy = "fixed") =>
        \A p \in 1..Len(withdrawals) : \A y \in 1..Len(withdrawals[p]) :
            withdrawals[p][y] # RZero => withdrawals[p][y] = annual_withdrawal

\* the net cash flow of the year under simulation on the path under simulation
YearCashFlow == IF cf_schedule = None THEN RZero ELSE cf_schedule[year + 1]

\* C8 (amended): with the "fixed" strategy every entry that run_simulation writes
\* is the entry of the year under simulation, and it is annual_withdrawal minus
\* the net cash flow of that year on that path; so it is annual_withdrawal
\* exactly when that year has no net cash flow.
C8_EntryIsAnnualMinusCashFlow ==
    [][(fn = "run_simulation" /\ withdrawal_strategy = "fixed" /\ pc = "rs_year") =>
          \A p \in 1..Len(withdrawals) : \A y \in 1..Len(withdrawals[p]) :
              IF p = i + 1 /\ y = year + 1
              THEN withdrawals'[p][y] = RSub(annual_withdrawal, YearCashFlow)
              ELSE withdrawals'[p][y] = withdrawals[p][y]]_vars

\* a finished fixed-strategy run with an income in year 2: the entry of year 1
\* is annual_withdrawal, the entry of year 2 is annual_withdrawal minus the income
C8_Witness ==
    /\ fn = "run_simulation" /\ pc = "done" /\ withdrawal_strategy = "fixed"
    /\ cash_flows = << IncomeItem >>
    /\ retirement_years = 2
    /\ annual_withdrawal = Z(1)
    /\ \E p \in 1..Len(withdrawals) :
          /\ withdrawals[p][1] = annual_withdrawal
          /\ withdrawals[p][2] = RSub(annual_withdrawal, IncomeItem.amount)

\* C9: in the trajectories of run_simulation, run_guardrail_simulation and
\* run_fixed_baseline no entry is negative and a zero entry is followed by zero
\* entries only; a year that ends with a value of 0 or less leaves 0 in its
\* column and in every later one.
C9_RuinAbsorbing ==
    fn \in PathSimulators =>
        \A p \in 1..Len(trajectories) :
            LET row == trajectories[p]
            IN  \A c \in 1..Len(row) :
                    /\ RLe(RZero, row[c])
                    /\ row[c] = RZero => \A d \in c..Len(row) : row[d] = RZero

\* a finished call in which a path was ruined in year 1 although year 2 brings
\* an income larger than the withdrawal
C9_Witness ==
    /\ fn \in PathSimulators /\ pc = "done"
    /\ cash_flows = << IncomeItem >>
    /\ retirement_years = 2
    /\ RLt(annual_withdrawal, IncomeItem.amount)
    /\ \E p \in 1..Len(trajectories) :
          /\ RPos(trajectories[p][1])
          /\ trajectories[p][2] = RZero
          /\ trajectories[p][3] = RZero

\* C10: when a path is ruined in year y, the withdrawals matrix of the finished
\* call holds 0 for that path in year y and in every later year.
C10_RuinYearWithdrawalZero ==
    (fn \in PathSimulators /\ pc = "done") =>
        \A p \in 1..Len(withdrawals) : \A y \in 1..Len(withdrawals[p]) :
            trajectories[p][y + 1] = RZero => withdrawals[p][y] = RZero


TargetColumn ==
    LET rem == Max2(Min2(args.remaining_years, Len(table[1]) - 1), 1)
    IN  [r \in 1..Len(table) |-> table[r][rem + 1]]

\* a column that never rises along the rates
NonIncreasing(col) == \A r \in 1..(Len(col) - 1) : RLe(col[r + 1], col[r])

\* C12: for a column y in 1..max_years that never rises along the rates and a
\* target strictly between its last and its first entry, lookup_success_rate at
\* the rate that find_rate_for_target returns is the target.
C12_LookupInvertsFind ==
    (/\ fn = "find_rate_for_target" /\ pc = "done"
     /\ args.remaining_years \in 1..(Len(table[1]) - 1)
     /\ NonIncreasing(TargetColumn)
     /\ RLt(TargetColumn[Len(table)], target_success)
     /\ RLt(target_success, TargetColumn[1])) => result.success = target_success

\* a round trip through a rate strictly between two rates of the uneven grid
C12_Witness ==
    /\ fn = "find_rate_for_target" /\ pc = "done"
    /\ args.remaining_years = 2
    /\ rate_grid = << Rat(1, 4), Rat(1, 2), Z(1) >>
    /\ TargetColumn = << ROne, Rat(1, 2), RZero >>
    /\ target_success = Rat(1, 4)
    /\ result.rate = Rat(3, 4)
    /\ result.success = Rat(1, 4)

\* C14: find_rate_for_target returns 0 when the first entry of the column is
\* below the target, else the last grid rate when the last entry reaches the
\* target, and else a rate between the first and the last grid rate.
C14_FindRateFallbacks ==
    (fn = "find_rate_for_target" /\ pc \in { "found", "done" }) =>
        LET col  == TargetColumn
            last == Len(rate_grid)
        IN  IF RLt(col[1], target_success) THEN result.rate = RZero
            ELSE IF RLe(target_success, col[last]) THEN result.rate = rate_grid[last]
            ELSE RLe(rate_grid[1], result.rate) /\ RLe(result.rate, rate_grid[last])

\* the third case on a column that rises and then falls: the rate lies between
\* the last two grid rates
C14_Witness ==
    /\ fn = "find_rate_for_target" /\ pc = "found"
    /\ Len(rate_grid) = 3
    /\ TargetColumn = << Rat(1, 2), ROne, RZero >>
    /\ target_success = Rat(1, 2)
    /\ RLt(rate_grid[2], result.rate)
    /\ RLt(result.rate, rate_grid[3])


(***************************************************************************)
(* Properties of _find_portfolio_for_success                               *)
(***************************************************************************)
\* |a - b|
AbsDiff(a, b) == IF RLt(a, b) THEN RSub(b, a) ELSE RSub(a, b)

\* the success rate of the returned portfolio on the scenarios of the call
ReturnedSuccessRate == SearchSuccessRate(cf_matrix, result)

\* C13 (as stated): the portfolio that _find_portfolio_for_success returns has a
\* success rate on the same scenarios that differs from the target by less
\* than tol.
C13_ResultWithinTolerance ==
    (fn = "_find_portfolio_for_success" /\ pc = "done") =>
        RLt(AbsDiff(ReturnedSuccessRate, target_success), tol)

\* C13 (amended): when the loop returns before its max_iter iterations are used
\* up, the success rate of the returned portfolio is within tol of the target;
\* otherwise the function returns the midpoint of the last interval, which lies
\* inside the interval searched, with no guarantee on its success rate.
C13_WithinToleranceOrMidpoint ==
    (fn = "_find_portfolio_for_success" /\ pc = "done") =>
        IF iter < max_iter
        THEN RLt(AbsDiff(ReturnedSuccessRate, target_success), tol)
        ELSE /\ iter = max_iter
             /\ result = RDiv(RAdd(lo, hi), Z(2))
             /\ RLt(lo, hi)

\* a search that returned from the tolerance test after iterations that moved
\* both ends of the interval
C13_Witness ==
    /\ fn = "_find_portfolio_for_success" /\ pc = "done"
    /\ iter >= 2 /\ iter < max_iter
    /\ target_success = Rat(1, 2)
    /\ ReturnedSuccessRate = Rat(1, 2)
    /\ RLt(lo, result) /\ RLt(result, hi)


(***************************************************************************)
(* Properties of compute_real_portfolio_returns                            *)
(***************************************************************************)
\* sum over the three assets of weight * (raw return - expense)
WeightedNominal(row, alloc, expenses) ==
    LET Part(w, r, e) == RMul(w, RSub(r, e))
    IN  RAdd(Part(alloc.us_stock, row[1], expenses.us_stock),
             RAdd(Part(alloc.intl_stock, row[2], expenses.intl_stock),
                  Part(alloc.us_bond, row[3], expenses.us_bond)))

\* the plain weighted average of the raw returns
WeightedAverage(row, alloc) ==
    RAdd(RMul(alloc.us_stock, row[1]),
         RAdd(RMul(alloc.intl_stock, row[2]), RMul(alloc.us_bond, row[3])))

\* C15: compute_real_portfolio_returns returns one entry per input year, the
\* entry of a year is (1 + nominal) / (1 + inflation) - 1 with nominal the
\* weighted sum of raw return minus expense, and with zero inflation and zero
\* expenses it is the plain weighted average of the raw returns.
C15_RealReturnFormula ==
    (/\ fn = "compute_real_portfolio_returns" /\ pc = "done"
     /\ result.raised = "None") =>
        /\ Len(result.value) = Len(sampled)
        /\ \A t \in 1..Len(sampled) :
              LET row     == sampled[t]
                  nominal == WeightedNominal(row, allocation, expense_ratios)
              IN  /\ RMul(RAdd(result.value[t], ROne), RAdd(ROne, row[4]))
                        = RAdd(ROne, nominal)
                  /\ (row[4] = RZero /\ expense_ratios = NoExpenses) =>
                        result.value[t] = WeightedAverage(row, allocation)

\* weights 0.5 / 0.3 / 0.2 on returns 0.10 / 0.08 / 0.04 without inflation and
\* expenses give 0.082; a second year with inflation and expenses gives less
C15_Witness ==
    /\ fn = "compute_real_portfolio_returns" /\ pc = "done"
    /\ args.keywords = << >>
    /\ Len(sampled) = 2
    /\ sampled[1] = << Rat(1, 10), Rat(2, 25), Rat(1, 25), RZero >>
    /\ sampled[2] = << Rat(1, 10), Rat(2, 25), Rat(1, 25), Rat(3, 100) >>
    /\ allocation.us_stock = Rat(1, 2)
    /\ expense_ratios = NoExpenses
    /\ result.value[1] = Rat(41, 500)
    /\ RLt(result.value[2], result.value[1])

\* (1 + L * nominal - (L - 1) * (inflation + s)) / (1 + inflation) - 1
LeveredReturn(row, alloc, expenses, L, s) ==
    LET nominal == WeightedNominal(row, alloc, expenses)
        levered == RSub(RMul(L, nominal), RMul(RSub(L, ROne), RAdd(row[4], s)))
    IN  RSub(RDiv(RAdd(ROne, levered), RAdd(ROne, row[4])), ROne)

\* C16: a call of compute_real_portfolio_returns with a leverage L other than 1
\* and a borrowing_spread s returns for every year
\* (1 + L * nominal - (L - 1) * (inflation + s)) / (1 + inflation) - 1.
C16_LeveredReturnFormula ==
    (/\ fn = "compute_real_portfolio_returns" /\ pc = "done"
     /\ "leverage" \in DOMAIN args.keywords
     /\ args.keywords.leverage # ROne) =>
        /\ result.raised = "None"
        /\ Len(result.value) = Len(sampled)
        /\ \A t \in 1..Len(sampled) :
              result.value[t] = LeveredReturn(sampled[t], allocation, expense_ratios,
                                              args.keywords.leverage,
                                              args.keywords.borrowing_spread)


(***************************************************************************)
(* Properties of AllocationSchema                                          *)
(***************************************************************************)
\* |us_stock + intl_stock + us_bond - 1| of the arguments
WeightSumDeviation ==
    AbsDiff(RAdd(RAdd(args.us_stock, args.intl_stock), args.us_bond), ROne)

\* C17: constructing an AllocationSchema whose weights do not sum to 1 within 1%
\* fails with a validation error, and weights within the field bounds whose sum
\* deviates from 1 by less than 1% are accepted.
C17_WeightSumValidated ==
    (fn = "AllocationSchema" /\ pc = "done") =>
        /\ ~RLt(WeightSumDeviation, Rat(1, 100)) => result.raised = "ValidationError"
        /\ (/\ RLt(WeightSumDeviation, Rat(1, 100))
            /\ FieldInRange(args.us_stock) /\ FieldInRange(args.intl_stock)
            /\ FieldInRange(args.us_bond)) => result.raised = "None"


(***************************************************************************)
(* run_simulation with and without an income                               *)
(***************************************************************************)
\* the k-th smallest entry of a sequence of numbers
KthSmallest(vals, k) ==
    CHOOSE x \in { vals[j] : j \in 1..Len(vals) } :
        /\ Cardinality({ j \in 1..Len(vals) : RLt(vals[j], x) }) < k
        /\ Cardinality({ j \in 1..Len(vals) : RLe(vals[j], x) }) >= k

\* np.median: the middle entry of the sorted values, the mean of the two middle
\* entries when their number is even
Median(vals) ==
    LET n == Len(vals)
    IN  IF n % 2 = 1 THEN KthSmallest(vals, (n + 1) \div 2)
        ELSE RDiv(RAdd(KthSmallest(vals, n \div 2), KthSmallest(vals, n \div 2 + 1)),
                  Z(2))

\* traj[:, -1]
FinalColumn(traj) == [p \in 1..Len(traj) |-> traj[p][Len(traj[p])]]

\* C18: a run_simulation call that differs from a seeded call without cash flows
\* only by a positive inflation-adjusted income has a median final portfolio value
\* that is not lower, for either withdrawal strategy.
C18_IncomeNeverLowersMedian ==
    (fn = "run_simulation" /\ call = 2 /\ pc = "done") =>
        RLe(Median(FinalColumn(first.trajectories)), Median(FinalColumn(trajectories)))

\* two paths under the dynamic strategy, the run without income ends with a
\* positive median and the run with the income strictly above it
C18_Witness ==
    /\ fn = "run_simulation" /\ call = 2 /\ pc = "done"
    /\ withdrawal_strategy = "dynamic"
    /\ num_simulations = 2
    /\ retirement_years = 2
    /\ cash_flows # << >>
    /\ first.trajectories[1] # first.trajectories[2]
    /\ RPos(Median(FinalColumn(first.trajectories)))
    /\ RLt(Median(FinalColumn(first.trajectories)), Median(FinalColumn(trajectories)))


(***************************************************************************)
(* Properties of interpolate_targets                                       *)
(***************************************************************************)
CurveMax(sr) == CHOOSE x \in { sr[j] : j \in 1..Len(sr) } : \A j \in 1..Len(sr) : RLe(sr[j], x)
CurveMin(sr) == CHOOSE x \in { sr[j] : j \in 1..Len(sr) } : \A j \in 1..Len(sr) : RLe(x, sr[j])

\* the curve crosses from >= t to < t between the points j and j + 1
CrossesAt(sr, t, j) == RLe(t, sr[j]) /\ RLt(sr[j + 1], t)

\* r is the rate on the straight line through the points j and j + 1 of the curve
\* at success rate t, and it lies between the two rates
InterpolatedAt(rates, sr, t, j, r) ==
    /\ RMul(RSub(r, rates[j + 1]), RSub(sr[j], sr[j + 1]))
         = RMul(RSub(t, sr[j + 1]), RSub(rates[j], rates[j + 1]))
    /\ RLe(rates[j], r)
    /\ RLe(r, rates[j + 1])

\* the boundary rules for target k of a finished call
BoundaryRules(k) ==
    LET t  == args.targets[k]
        sr == args.success_rates
    IN  /\ RLt(CurveMax(sr), t) => result[k] = None
        /\ RLe(t, CurveMin(sr)) => result[k] = args.rates[Len(args.rates)]

\* C19 as stated: for every target and every curve, a target above the maximum
\* of the curve gives None, a target at or below the minimum gives the highest
\* rate, and every other target gives the rate interpolated between an adjacent
\* pair where the curve crosses from >= t to < t.
C19_InterpolatesEveryCurve ==
    (fn = "interpolate_targets" /\ pc = "done") =>
        \A k \in 1..Len(args.targets) :
            LET t  == args.targets[k]
                sr == args.success_rates
            IN  /\ BoundaryRules(k)
                /\ (~RLt(CurveMax(sr), t) /\ ~RLe(t, CurveMin(sr))) =>
                      /\ result[k] # None
                      /\ \E j \in 1..(Len(sr) - 1) :
                            /\ CrossesAt(sr, t, j)
                            /\ InterpolatedAt(args.rates, sr, t, j, result[k])

\* C19 (amended): the two boundary rules hold for every curve; a target between
\* them gives the rate interpolated at the first crossing when the curve starts
\* at or above the target and ends below it (every non-increasing curve does),
\* None when the curve starts below the target, and the highest rate when the
\* curve ends at or above the target.
C19_InterpolatesFromFirstToLast ==
    (fn = "interpolate_targets" /\ pc = "done") =>
        /\ Len(result) = Len(args.targets)
        /\ \A k \in 1..Len(args.targets) :
              LET t  == args.targets[k]
                  sr == args.success_rates
                  n  == Len(sr)
              IN  /\ BoundaryRules(k)
                  /\ (RLe(t, sr[1]) /\ RLt(sr[n], t)) =>
                        /\ result[k] # None
                        /\ \E j \in 1..(n - 1) :
                              /\ CrossesAt(sr, t, j)
                              /\ \A h \in 1..(j - 1) : ~CrossesAt(sr, t, h)
                              /\ InterpolatedAt(args.rates, sr, t, j, result[k])
                  /\ RLt(sr[1], t) => result[k] = None
                  /\ (RLe(t, sr[1]) /\ RLe(t, sr[n])) => result[k] = args.rates[n]

\* a decreasing curve 1, 1/2, 0 over three rates with the targets 3/4 and 1/4:
\* both are interpolated, strictly inside the first and the second pair
C19_Witness ==
    /\ fn = "interpolate_targets" /\ pc = "done"
    /\ args.success_rates = << ROne, Rat(1, 2), RZero >>
    /\ args.targets = << Rat(3, 4), Rat(1, 4) >>
    /\ RLt(args.rates[1], result[1]) /\ RLt(result[1], args.rates[2])
    /\ RLt(args.rates[2], result[2]) /\ RLt(result[2], args.rates[3])


(***************************************************************************)
(* The initial portfolio of run_guardrail_simulation                       *)
(***************************************************************************)
\* the smallest strictly positive rate of a grid
SmallestPositiveRate(grid) ==
    CHOOSE x \in { grid[k] : k \in 1..Len(grid) } :
        /\ RPos(x)
        /\ \A k \in 1..Len(grid) : RPos(grid[k]) => RLe(x, grid[k])

\* C20: in run_guardrail_simulation without cash flows the initial portfolio is
\* annual_withdrawal / initial_rate with initial_rate the inverse lookup of
\* target_success at retirement_years, replaced by the smallest strictly positive
\* rate of the grid when the lookup returns 0.
C20_InitialPortfolioFromRate ==
    (fn = "run_guardrail_simulation" /\ pc # "entry" /\ cash_flows = << >>) =>
        LET found        == find_rate_for_target(table, rate_grid, target_success,
                                                 retirement_years)
            initial_rate == IF found = RZero THEN SmallestPositiveRate(rate_grid)
                            ELSE found
        IN  /\ RPos(initial_rate)
            /\ RMul(initial_portfolio, initial_rate) = annual_withdrawal


(***************************************************************************)
(* The dynamic withdrawal strategy                                         *)
(***************************************************************************)
\* gross is inside the band around prev, and is the target when the target is
\* inside the band
InDynamicBand(gross, prev, target) ==
    LET lower == RMul(prev, RSub(ROne, dynamic_floor))
        upper == RMul(prev, RAdd(ROne, dynamic_ceiling))
    IN  /\ RLe(lower, gross)
        /\ RLe(gross, upper)
        /\ (RLe(lower, target) /\ RLe(target, upper)) => gross = target

\* the gross withdrawal of a year is annual_withdrawal in year 0 and follows the
\* band around the withdrawal of the year before in later years
DynamicRule(gross) ==
    IF year = 0 THEN gross = annual_withdrawal
    ELSE InDynamicBand(gross, wd,
                       RMul(value, RDiv(annual_withdrawal, initial_portfolio)))

\* C21: under the "dynamic" strategy year 0 withdraws annual_withdrawal, and in
\* every later year of a path that is not ruined the gross withdrawal lies in
\* [prev * (1 - dynamic_floor), prev * (1 + dynamic_ceiling)] around the gross
\* withdrawal of the year before on that path, and is value * (annual_withdrawal /
\* initial_portfolio) when that target is inside the band.  run_simulation's gross
\* withdrawal is read from the entry it writes (entry plus cash flow),
\* _simulate_success_rate's from prev_wd in every year that does not end a path
\* before the last one.
C21_DynamicBandAroundPrevious ==
    [][/\ ((fn = "run_simulation" /\ pc = "rs_year" /\ withdrawal_strategy = "dynamic") =>
             (/\ DynamicRule(RAdd(withdrawals'[i + 1][year + 1], YearCashFlow))
              /\ wd' = RAdd(withdrawals'[i + 1][year + 1], YearCashFlow)))
        /\ ((/\ fn = "_simulate_success_rate" /\ pc = "ss_year"
             /\ withdrawal_strategy = "dynamic" /\ i' = i) => DynamicRule(wd'))]_vars

\* a finished dynamic run_simulation without cash flows over three years whose
\* second withdrawal differs from annual_withdrawal and whose third is above the
\* band around annual_withdrawal
C21_Witness ==
    /\ fn = "run_simulation" /\ pc = "done" /\ withdrawal_strategy = "dynamic"
    /\ cash_flows = << >>
    /\ retirement_years = 3
    /\ \E p \in 1..Len(withdrawals) :
          /\ withdrawals[p][2] # annual_withdrawal
          /\ RLt(RMul(annual_withdrawal, RAdd(ROne, dynamic_ceiling)), withdrawals[p][3])
          /\ RLe(withdrawals[p][3], RMul(withdrawals[p][2], RAdd(ROne, dynamic_ceiling)))


(***************************************************************************)
(* The year step of the four path simulators                               *)
(***************************************************************************)
\* the real return of the year under simulation
YearReturn ==
    IF fn = "run_simulation" THEN real_returns[year + 1] ELSE scenarios[i + 1][year + 1]

\* previous value * (1 + real return) - gross + cash flow of the year
ExpectedYearEnd(gross) ==
    RAdd(RSub(RMul(value, RAdd(ROne, YearReturn)), gross), YearCashFlow)

\* C22: in every path simulator the end value of a year is previous_value *
\* (1 + real_return) - withdrawal + cash_flow[year], stored when it is above 0 and
\* replaced by 0 (ruin) when it is <= 0, so the ruin test sees the cash flow and
\* the cash flow earns no return in its year.  The withdrawal is read from the
\* entry written (entry plus cash flow); _simulate_success_rate, which writes
\* none, is followed through value and the survivor count.
C22_YearEndValue ==
    [][/\ ((fn \in PathSimulators /\ pc \in { "rs_year", "g_year", "fb_year" }) =>
             (LET gross    == RAdd(withdrawals'[i + 1][year + 1], YearCashFlow)
                  expected == ExpectedYearEnd(gross)
              IN  trajectories'[i + 1][year + 2]
                     = IF RPos(expected) THEN expected ELSE RZero))
        /\ ((/\ fn = "_simulate_success_rate" /\ pc = "ss_year"
             /\ (withdrawal_strategy = "fixed" \/ i' = i)) =>
             (LET gross    == IF withdrawal_strategy = "fixed" THEN annual_withdrawal
                              ELSE wd'
                  expected == ExpectedYearEnd(gross)
              IN  /\ (pc' = "ss_year" /\ i' = i) => (RPos(expected) /\ value' = expected)
                  /\ ~RPos(expected) => survived' = survived
                  /\ (RPos(expected) /\ year + 1 = retirement_years) =>
                        survived' = survived + 1))]_vars

\* a finished run with an income of 2 in year 2: a path whose value after the
\* return and the withdrawal of year 2 is <= 0 ends the year above 0
C22_Witness ==
    /\ fn \in PathSimulators /\ pc = "done"
    /\ cash_flows = << IncomeItem >>
    /\ retirement_years = 2
    /\ \E p \in 1..Len(trajectories) :
          /\ RPos(trajectories[p][3])
          /\ RLe(trajectories[p][3], IncomeItem.amount)


(***************************************************************************)
(* Properties of lookup_success_rate                                       *)
(***************************************************************************)
\* the column of the table at remaining_years clamped to [0, max_years]
ForwardColumn ==
    LET max_years == Len(table[1]) - 1
        y         == IF args.remaining_years < 0 THEN 0
                     ELSE IF args.remaining_years > max_years THEN max_years
                     ELSE args.remaining_years
    IN  [r \in 1..Len(table) |-> table[r][y + 1]]

\* x lies between a and b, whichever of them is the larger
Between(x, a, b) ==
    \/ RLe(a, x) /\ RLe(x, b)
    \/ RLe(b, x) /\ RLe(x, a)

\* C23: lookup_success_rate never extrapolates: at the column of remaining_years
\* clamped to [0, max_years] it returns the first entry for every rate at or
\* below rate_grid[0], the last entry for every rate at or above rate_grid[-1],
\* the entry of a grid rate at that rate, and for a rate between two adjacent grid
\* rates the value on the straight line between their entries, which lies between
\* the two entries; so the result is within [0, 1].
C23_LookupNeverExtrapolates ==
    (fn = "lookup_success_rate" /\ pc = "done") =>
        LET col  == ForwardColumn
            last == Len(rate_grid)
            rate == args.rate
        IN  /\ RLe(rate, rate_grid[1]) => result = col[1]
            /\ RLe(rate_grid[last], rate) => result = col[last]
            /\ \A k \in 1..last : rate = rate_grid[k] => result = col[k]
            /\ \A k \in 1..(last - 1) :
                  (RLt(rate_grid[k], rate) /\ RLt(rate, rate_grid[k + 1])) =>
                      /\ Between(result, col[k], col[k + 1])
                      /\ RMul(RSub(result, col[k]), RSub(rate_grid[k + 1], rate_grid[k]))
                           = RMul(RSub(rate, rate_grid[k]), RSub(col[k + 1], col[k]))
            /\ RLe(RZero, result)
            /\ RLe(result, ROne)

\* a rate strictly between the last two rates of a three-point grid, with
\* remaining_years beyond the table: the result is strictly between two entries
\* of the last column that differ
C23_Witness ==
    /\ fn = "lookup_success_rate" /\ pc = "done"
    /\ args.remaining_years = 3
    /\ Len(rate_grid) = 3
    /\ RLt(rate_grid[2], args.rate) /\ RLt(args.rate, rate_grid[3])
    /\ table[2][3] = ROne /\ table[3][3] = RZero
    /\ table[2][2] = RZero
    /\ RLt(RZero, result) /\ RLt(result, ROne)


(***************************************************************************)
(* The guardrail band                                                      *)
(***************************************************************************)
\* the year under simulation starts with a positive value and the success
\* probability looked up for the carried withdrawal is inside the band
InsideBand ==
    /\ RPos(value)
    /\ RLe(lower_guardrail, CurrentSuccess(wd, value, cf_schedule, year))
    /\ RLe(CurrentSuccess(wd, value, cf_schedule, year), upper_guardrail)

\* C24: in run_guardrail_simulation and run_historical_backtest a year whose
\* looked-up success probability p has lower_guardrail <= p <= upper_guardrail
\* keeps the base withdrawal of the year before (annual_withdrawal in year 0) and
\* records no adjustment event; the base withdrawal changes only in a year with
\* p < lower_guardrail or p > upper_guardrail.  The base withdrawal of
\* run_guardrail_simulation is read from the entry it writes (entry plus cash
\* flow).
C24_UnchangedInsideBand ==
    [][/\ ((fn = "run_historical_backtest" /\ pc = "hb_g_year") =>
             (/\ InsideBand =>
                   (/\ wd' = wd
                    /\ result'.adjustment_events = result.adjustment_events
                    /\ RAdd(result'.g_withdrawals[year + 1], YearCashFlow) = wd)
              /\ wd' # wd =>
                   (/\ ~InsideBand
                    /\ RPos(value)
                    /\ Len(result'.adjustment_events)
                          = Len(result.adjustment_events) + 1)))
        /\ ((fn = "run_guardrail_simulation" /\ pc = "g_year") =>
             (LET base == RAdd(withdrawals'[i + 1][year + 1], YearCashFlow)
              IN  /\ InsideBand => base = wd
                  /\ base # wd => ~InsideBand))
        /\ ((fn = "run_historical_backtest" /\ pc = "entry" /\ pc' = "hb_g_year") =>
                wd' = annual_withdrawal)]_vars

\* a finished backtest without cash flows: an adjustment in some year, and a
\* later year inside the band that starts with a positive value, has no event
\* and withdraws what the year before withdrew, which is not annual_withdrawal
C24_Witness ==
    /\ fn = "run_historical_backtest" /\ pc = "done"
    /\ cash_flows = << >>
    /\ result.adjustment_events # << >>
    /\ \E k \in 2..Len(result.g_withdrawals) :
          /\ RPos(result.g_portfolio[k])
          /\ RLe(lower_guardrail, result.g_success_rates[k])
          /\ RLe(result.g_success_rates[k], upper_guardrail)
          /\ \A e \in 1..Len(result.adjustment_events) :
                result.adjustment_events[e].year # k - 1
          /\ result.g_withdrawals[k] = result.g_withdrawals[k - 1]
          /\ result.g_withdrawals[k] # annual_withdrawal


(***************************************************************************)
(* Ruin in run_historical_backtest                                         *)
(***************************************************************************)
\* once an entry after the first is 0, every later entry is 0
AbsorbedAtZero(series) ==
    \A k \in 2..Len(series) :
        series[k] = RZero => \A j \in k..Len(series) : series[j] = RZero

\* C27: in run_historical_backtest ruin is absorbing for both returned series:
\* once g_portfolio[k] = 0 (respectively b_portfolio[k] = 0) for some k >= 1,
\* every later entry of that series is 0.
C27_BacktestRuinAbsorbing ==
    (fn = "run_historical_backtest" /\ pc = "done") =>
        /\ AbsorbedAtZero(result.g_portfolio)
        /\ AbsorbedAtZero(result.b_portfolio)


(***************************************************************************)
(* Blocks of block_bootstrap                                               *)
(***************************************************************************)
\* the block of size b that starts at 0-based row s of the ring of the dataset
RingRun(data, s, b) == [k \in 1..b |-> data[((s + k - 1) % Len(data)) + 1]]

\* C25: every block drawn by block_bootstrap is a run of consecutive dataset rows
\* on the ring: for some start s in [0, n) and its size b in [min_block, max_block]
\* it holds the rows (s + k) mod n for k = 0..b-1 in that order, also when b > n;
\* and while the loop runs, every such s and b can be the next block.
C25_BlocksAreRingRuns ==
    [][(pc = "bb_loop" /\ total_sampled < retirement_years) =>
         LET n == Len(returns_df)
             drawn == sampled_rows'[Len(sampled_rows')]
         IN  /\ Len(sampled_rows') = Len(sampled_rows) + 1
             /\ Len(drawn) \in min_block..max_block
             /\ \E s \in 0..(n - 1) : drawn = RingRun(returns_df, s, Len(drawn))
             /\ total_sampled' = total_sampled + Len(drawn)
             /\ (rng.seed = NoSeed) =>
                   \A s \in 0..(n - 1) : \A b \in min_block..max_block :
                      ENABLED (BB_Block /\ sampled_rows' = Append(sampled_rows, RingRun(returns_df, s, b)))
    ]_vars

\* a block longer than the dataset that starts at its last row and passes row 0
\* more than once
C25_Witness ==
    /\ fn = "block_bootstrap"
    /\ Len(returns_df) = 2
    /\ \E j \in 1..Len(sampled_rows) :
          /\ Len(sampled_rows[j]) = 3
          /\ sampled_rows[j] = << returns_df[2], returns_df[1], returns_df[2] >>


(***************************************************************************)
(* Termination of block_bootstrap                                          *)
(***************************************************************************)
\* ceil(a / b) for b >= 1
CeilDiv(a, b) == (a + b - 1) \div b

\* C28: with min_block >= 1 block_bootstrap terminates whatever is drawn, and its
\* loop draws at most ceil(retirement_years / min_block) blocks before the
\* accumulated length reaches retirement_years.
C28_BootstrapTerminates ==
    /\ [](fn = "block_bootstrap" =>
             /\ Len(sampled_rows) <= CeilDiv(retirement_years, min_block)
             /\ total_sampled >= Len(sampled_rows) * min_block)
    /\ <>(fn = "block_bootstrap" /\ pc = "done" /\ total_sampled >= retirement_years)

\* a call that needed every one of the ceil(retirement_years / min_block) draws,
\* more than one, each of the smallest size
C28_Witness ==
    /\ fn = "block_bootstrap" /\ pc = "done"
    /\ min_block < max_block
    /\ Len(sampled_rows) = CeilDiv(retirement_years, min_block)
    /\ Len(sampled_rows) >= 2


(***************************************************************************)
(* The years axis of the table                                             *)
(***************************************************************************)
\* C30: when every rate of the grid is >= 0, the table built by
\* build_success_rate_table never rises along the years: table[i, y + 1] <=
\* table[i, y] for every rate index i and every year y, a path pinned at 0 not
\* being counted alive again.
C30_TableFallsAlongYears ==
    (/\ fn = "build_success_rate_table" /\ pc = "done"
     /\ \A ri \in 1..Len(result.rate_grid) : RLe(RZero, result.rate_grid[ri])) =>
        \A ri \in 1..Len(result.table) : NonIncreasing(result.table[ri])

\* a table from a path that loses 150% in each of two years: pinned at 0 after
\* the first, it would be above 0 again after the second were it carried on at
\* its negative value; the row of rate 1/4 falls to 0 and stays there
C30_Witness ==
    /\ fn = "build_success_rate_table" /\ pc = "done"
    /\ retirement_years >= 2
    /\ Len(scenarios) = 1
    /\ scenarios[1][1] = Rat(-3, 2) /\ scenarios[1][2] = Rat(-3, 2)
    /\ \E ri \in 1..Len(result.rate_grid) :
          /\ result.rate_grid[ri] = Rat(1, 4)
          /\ result.table[ri][1] = ROne
          /\ result.table[ri][2] = RZero
          /\ result.table[ri][3] = RZero


(***************************************************************************)
(* The trial simulation of _find_portfolio_for_success against             *)
(* run_fixed_baseline                                                      *)
(***************************************************************************)
TrialPortfolios == { Z(1), Z(2), Z(4) }

\* run_fixed_baseline(scenarios, P, annual_withdrawal / P, retirement_years,
\*     cash_flows, inflation_matrix) is called for a trial portfolio P
InitTrial ==
    /\ fn = "run_fixed_baseline"
    /\ InitScenarioCall
    /\ NoGuardrailArgs
    /\ initial_portfolio \in TrialPortfolios
    /\ annual_withdrawal = Z(1)
    /\ baseline_rate = RDiv(annual_withdrawal, initial_portfolio)
    /\ withdrawal_strategy = "fixed"
    /\ dynamic_ceiling = RZero
    /\ dynamic_floor = RZero

\* _success_rate(P) of _find_portfolio_for_success (lines 224-231) for the same
\* scenarios, annual withdrawal and portfolio, and the cash-flow matrix that
\* run_guardrail_simulation makes of the same cash flows (lines 310-330)
TS_Call ==
    /\ fn = "run_fixed_baseline"
    /\ pc = "done"
    /\ fn' = "_success_rate"
    /\ result' = SearchSuccessRate(GuardrailCfMatrix, initial_portfolio)
    /\ UNCHANGED << pc, retirement_years, bbVars, cfVars, rsArgs, grArgs, simLocals,
                    searchVars, detVars, args >>

NextTrial == FB_Enter \/ FB_Year \/ TS_Call

SpecTrial == InitTrial /\ [][NextTrial]_vars

\* the fraction of the paths of run_fixed_baseline that end above 0
BaselineSuccess ==
    MeanTrue([p \in 1..Len(trajectories) |-> RPos(trajectories[p][retirement_years + 1])])

\* C26: the success rate that _success_rate computes for a portfolio P equals the
\* fraction of paths that end with a positive value when the same P, annual
\* withdrawal, scenarios and cash flows are run through run_fixed_baseline with
\* baseline_rate = annual_withdrawal / P, for every P and every cash-flow schedule.
C26_TrialMatchesBaseline ==
    (fn = "_success_rate" /\ pc = "done") => result = BaselineSuccess


(***************************************************************************)
(* The direction of a guardrail adjustment                                 *)
(***************************************************************************)
\* scenario matrices the table of a backtest is built from: a fall and a rise
\* that falls, rises only, a levered loss beside rises, levered losses only
ProtScenarios ==
    { HbScenarios,
      << << Z(1), Z(1), Z(1) >>, << Z(1), Z(1), Z(1) >> >>,
      << << Rat(-3, 2), Rat(-3, 2), Rat(-3, 2) >>, << Z(1), Z(1), Z(1) >> >>,
      << << Rat(-3, 2), Rat(-3, 2), Rat(-3, 2) >>, << Rat(-3, 2), Rat(-3, 2), Rat(-3, 2) >> >> }

\* run_historical_backtest is called with a table of one of these matrices, a
\* portfolio above or below the annual withdrawal, and no or one income
InitProtective ==
    /\ fn = "run_historical_backtest"
    /\ pc = "entry"
    /\ retirement_years \in 1..HbMaxYears
    /\ real_returns \in [1..retirement_years -> SimReturns]
    /\ inflation_series = None
    /\ initial_portfolio \in { Rat(1, 2), Z(2) }
    /\ annual_withdrawal = Z(1)
    /\ target_success = Rat(1, 2)
    /\ upper_guardrail = Rat(3, 4)
    /\ lower_guardrail = Rat(1, 4)
    /\ adjustment_pct = Rat(1, 2)
    /\ adjustment_mode \in { "amount", "success_rate" }
    /\ min_remaining_years = 1
    /\ baseline_rate = Rat(1, 4)
    /\ \E scens \in ProtScenarios :
          LET built == build_success_rate_table(scens, GridMin, GridMax, GridStep)
          IN  table = built.table /\ rate_grid = built.rate_grid
    /\ cash_flows \in { << >>, << IncomeItem >> }
    /\ cf_result = [raised |-> FALSE, schedule |-> << >>]
    /\ scenarios = << >>
    /\ inflation_matrix = None
    /\ BbIdle
    /\ allocation = << >>
    /\ expense_ratios = << >>
    /\ withdrawal_strategy = "fixed"
    /\ dynamic_ceiling = RZero
    /\ dynamic_floor = RZero
    /\ num_simulations = 0
    /\ seed = NoSeed
    /\ i = 0
    /\ year = 0
    /\ value = RZero
    /\ wd = RZero
    /\ cf_schedule = None
    /\ cf_matrix = None
    /\ trajectories = << >>
    /\ withdrawals = << >>
    /\ survived = 0
    /\ lo = RZero
    /\ hi = RZero
    /\ iter = 0
    /\ DetIdle
    /\ FnIdle

NextProtective == HB_Enter \/ HB_GYear \/ HB_BYear

SpecProtective == InitProtective /\ [][NextProtective]_vars

\* the conditions on the arguments of the adjustment
ProtectiveArgs ==
    /\ RLe(lower_guardrail, target_success) /\ RLe(target_success, upper_guardrail)
    /\ RPos(adjustment_pct) /\ RLe(adjustment_pct, ROne)
    /\ RPos(value)
    /\ \A c \in 1..Len(table[1]) : NonIncreasing([r \in 1..Len(table) |-> table[r][c]])

\* the average of the cash flows still to come, 0 without cash flows
YearCfAvg == IF cf_schedule # None THEN FutureCfAvg(cf_schedule, year) ELSE RZero

\* the success rate looked up for the carried withdrawal in the year under simulation
YearSuccess == CurrentSuccess(wd, value, cf_schedule, year)

=============================================================================
